---- MODULE Spec2Model ----
(***************************************************************************)
(* StudySphere planner: the adaptive scheduling core.                      *)
(*                                                                         *)
(*  - the save-quiz-result edge function (mastery classification, topic    *)
(*    update, study task, revision scheduling with duplicate suppression,  *)
(*    streak update), modelled one step per awaited database call;         *)
(*  - the daily allocator calculateDynamicDistribution of the Plan page,   *)
(*    a pure function over the topic list and the daily study hours, and   *)
(*    fetchData, which calls it with the profile's daily_study_hours;      *)
(*  - the scoring of a quiz in the QuizModal component and the Quiz page.  *)
(*                                                                         *)
(* Dates are UTC epoch days (what getTime() / 86400000 floors to); a       *)
(* stored DATE column is the <<year, month, day>> that                     *)
(* toISOString().split('T')[0] prints.  Database writes fail exactly where *)
(* the code branches on the returned error (topicError, taskError,         *)
(* revisionError); reads return the table contents.                        *)
(***************************************************************************)
EXTENDS Integers, Sequences, FiniteSets, Bags, TLC

(***************************************************************************)
(* Bounds of the model.                                                    *)
(***************************************************************************)
MaxCalls == 2          \* invocations of save-quiz-result per behaviour
MaxTicks == 1          \* midnights (UTC) that pass during a behaviour
MaxPerSubject == 2     \* pending topics of one subject in the allocator's input
MaxQuarterHours == 12  \* dailyHours ranges over 1/4 .. MaxQuarterHours/4
MaxQuestions == 3      \* questions of one quiz

(***************************************************************************)
(* Program constants.                                                      *)
(***************************************************************************)
AVERAGE_TOPIC_MINUTES == 30
REVISION_MINUTES == 20
STUDY_MINUTES == 30

Users == {"u1", "u2"}
TopicIds == {"t1", "t2"}
Confidences == {"high", "medium", "low"}
\* quiz outcomes submitted to save-quiz-result: weak, needs_revision, strong,
\* and a score above 100 (the body of the request is not validated)
QuizResults == { <<30, "low">>, <<30, "medium">>, <<90, "high">>, <<101, "high">> }
StartDays == {19781}            \* the handler's clock starts on 2024-02-28
ScheduleDays == 19358..20453    \* 2023-01-01 .. 2025-12-31
Procs == {1, 2}

NullDate == <<0, 0, 0>>

(***************************************************************************)
(* new Date(ms).toISOString().split('T')[0]: the proleptic Gregorian       *)
(* calendar date of a UTC epoch day.                                       *)
(***************************************************************************)
toISODate(day) ==
  LET z == day + 719468
      era == z \div 146097
      doe == z - era * 146097
      yoe == (doe - (doe \div 1460) + (doe \div 36524) - (doe \div 146096)) \div 365
      doy == doe - (365 * yoe + (yoe \div 4) - (yoe \div 100))
      mp == (5 * doy + 2) \div 153
      d == doy - ((153 * mp + 2) \div 5) + 1
      m == IF mp < 10 THEN mp + 3 ELSE mp - 9
      y == yoe + era * 400 + (IF m <= 2 THEN 1 ELSE 0)
  IN <<y, m, d>>

(***************************************************************************)
(* Mastery classification of save-quiz-result.                             *)
(***************************************************************************)
classify_mutant(score, confidence) ==
  IF score > 80 /\ confidence = "high" THEN "strong"
  ELSE IF score >= 50 /\ confidence = "medium" THEN "needs_revision"
  ELSE "weak"

\* rule 2 with the wrong threshold
classify_lowbar(score, confidence) ==
  IF score >= 80 /\ confidence = "high" THEN "strong"
  ELSE IF score >= 40 \/ confidence = "medium" THEN "needs_revision"
  ELSE "weak"

classify(score, confidence) ==
  IF score >= 80 /\ confidence = "high" THEN "strong"
  ELSE IF score >= 50 \/ confidence = "medium" THEN "needs_revision"
  ELSE "weak"

(***************************************************************************)
(* Revision schedule of save-quiz-result.                                  *)
(***************************************************************************)
revisionSchedule_mutant(status) ==
  IF status = "strong"
  THEN << [daysAhead |-> 7, requireQuiz |-> FALSE],
          [daysAhead |-> 14, requireQuiz |-> FALSE] >>
  ELSE IF status = "needs_revision"
  THEN << [daysAhead |-> 3, requireQuiz |-> FALSE],
          [daysAhead |-> 7, requireQuiz |-> FALSE] >>
  ELSE << [daysAhead |-> 1, requireQuiz |-> FALSE] >>

revisionSchedule(status) ==
  IF status = "strong"
  THEN << [daysAhead |-> 7, requireQuiz |-> FALSE],
          [daysAhead |-> 21, requireQuiz |-> FALSE] >>
  ELSE IF status = "needs_revision"
  THEN << [daysAhead |-> 3, requireQuiz |-> FALSE],
          [daysAhead |-> 7, requireQuiz |-> FALSE] >>
  ELSE << [daysAhead |-> 1, requireQuiz |-> TRUE] >>

\* revisionSchedule.map(r => date string of todayDate + r.daysAhead days)
scheduledDates(todayDate, schedule) ==
  { toISODate(todayDate + schedule[i].daysAhead) : i \in DOMAIN schedule }

\* the mapped candidates before the filter on existingDates
revisionCandidates(userId, topicId, todayDate, schedule) ==
  [ i \in DOMAIN schedule |->
      [ user_id |-> userId,
        topic_id |-> topicId,
        scheduled_date |-> toISODate(todayDate + schedule[i].daysAhead),
        duration_minutes |-> REVISION_MINUTES,
        task_type |-> "revision",
        require_quiz |-> schedule[i].requireQuiz,
        is_completed |-> FALSE ] ]

newRevisionTasks_mutant(userId, topicId, todayDate, schedule, existingDates) ==
  revisionCandidates(userId, topicId, todayDate, schedule)

\* .filter(r => !existingDates.has(r.scheduledDate))
newRevisionTasks(userId, topicId, todayDate, schedule, existingDates) ==
  SelectSeq(revisionCandidates(userId, topicId, todayDate, schedule),
            LAMBDA r : r.scheduled_date \notin existingDates)

Range(s) == { s[i] : i \in DOMAIN s }

RECURSIVE BagOfSeq(_)
BagOfSeq(s) ==
  IF s = << >> THEN EmptyBag ELSE SetToBag({Head(s)}) (+) BagOfSeq(Tail(s))

(***************************************************************************)
(* State.                                                                  *)
(***************************************************************************)
VARIABLES
  topics,       \* table topics: id -> row
  study_tasks,  \* table study_tasks: bag of rows (the uuid key left out)
  profiles,     \* table profiles: user_id -> row
  now,          \* the clock, in UTC epoch days
  ticks,        \* midnights passed so far
  inv,          \* per request: position in the handler and its locals
  log,          \* responses returned so far, in order
  cls,          \* classifier run: score, confidence, status
  plan,         \* allocator run: topics, dailyHours, result
  quiz          \* a quiz being taken: questions, answers, position, score

dbVars == <<topics, study_tasks, profiles, now, ticks, inv, log>>
vars == <<topics, study_tasks, profiles, now, ticks, inv, log, cls, plan, quiz>>

topicOwner == [t \in TopicIds |-> IF t = "t1" THEN "u1" ELSE "u2"]

Idle ==
  [ pc |-> "idle", userId |-> "u1", topicId |-> "t1", score |-> 0,
    confidence |-> "low", status |-> "none", today |-> NullDate,
    todayDate |-> 0, schedule |-> << >>, newRevisionTasks |-> << >>,
    inserted |-> 0, lastStudyDate |-> NullDate, currentStreak |-> 0,
    newStreak |-> 0, origin |-> "edge", task |-> << >> ]

NoCls == [score |-> 0, confidence |-> "low", status |-> "none",
          todayDate |-> 0, candidates |-> << >>]
NoPlan == [topics |-> << >>, quarterHours |-> 0, done |-> FALSE,
           distribution |-> << >>, totalTopics |-> << >>,
           todayTopics |-> << >>, revisionsDueCount |-> 0,
           trim |-> << >>]

\* no quiz open; -1 stands for null (no answer selected, no score yet)
NoQuiz == [component |-> "none", questions |-> << >>, currentIndex |-> 0,
           selectedAnswer |-> -1, answers |-> << >>, phase |-> "none",
           score |-> -1, quizzes_score |-> -1, mistakes |-> {}]

InitDb ==
  /\ topics = [t \in TopicIds |->
                 [user_id |-> topicOwner[t], status |-> "pending",
                  confidence |-> "null", last_quiz_score |-> -1]]
  /\ study_tasks = EmptyBag
  /\ profiles = [u \in Users |->
                   [last_study_date |-> NullDate, current_streak |-> 0,
                    daily_study_hours |-> <<2>>]]
  /\ now \in StartDays
  /\ ticks = 0
  /\ inv = [p \in Procs |-> Idle]
  /\ log = << >>

(***************************************************************************)
(* save-quiz-result, one action per awaited call.                          *)
(***************************************************************************)
InFlight == { p \in Procs : inv[p].pc # "idle" }

\* the JSON body of the response, and the request it answers
Respond(p, http, revisionsScheduled, streak) ==
  /\ log' = Append(log,
       [ userId |-> inv[p].userId, topicId |-> inv[p].topicId,
         score |-> inv[p].score, confidence |-> inv[p].confidence,
         todayDate |-> inv[p].todayDate, http |-> http,
         status |-> inv[p].status,
         revisionsScheduled |-> revisionsScheduled,
         inserted |-> inv[p].inserted, streak |-> streak,
         origin |-> inv[p].origin, task |-> inv[p].task,
         lastStudyDate |-> inv[p].lastStudyDate,
         currentStreak |-> inv[p].currentStreak,
         newRevisionTasks |-> inv[p].newRevisionTasks ])
  /\ inv' = [inv EXCEPT ![p] = Idle]

\* req.json() and the status classification
ReceiveRequest(p, userId, topicId, score, confidence) ==
  /\ inv[p].pc = "idle"
  /\ Len(log) + Cardinality(InFlight) < MaxCalls
  /\ inv' = [inv EXCEPT ![p] =
       [Idle EXCEPT !.pc = "updateTopic", !.userId = userId,
                    !.topicId = topicId, !.score = score,
                    !.confidence = confidence,
                    !.status = classify(score, confidence)]]
  /\ UNCHANGED <<topics, study_tasks, profiles, now, ticks, log, cls, plan, quiz>>

\* CHECK (confidence IN ('high', 'medium', 'low')): an update with another
\* value is rejected
confidenceCheck(confidence) == confidence \in Confidences

\* an update that only touches a topic that is still pending
UpdateTopic_onlyPending(p, ok) ==
  /\ inv[p].pc = "updateTopic"
  /\ ok => confidenceCheck(inv[p].confidence)
  /\ IF ok
     THEN /\ topics' = [t \in DOMAIN topics |->
                IF /\ t = inv[p].topicId /\ topics[t].user_id = inv[p].userId
                   /\ topics[t].status = "pending"
                THEN [topics[t] EXCEPT !.status = inv[p].status,
                                       !.confidence = inv[p].confidence,
                                       !.last_quiz_score = inv[p].score]
                ELSE topics[t]]
          /\ inv' = [inv EXCEPT ![p].pc = "selectStudyTask"]
          /\ log' = log
     ELSE /\ topics' = topics
          /\ Respond(p, 500, 0, 0)
  /\ UNCHANGED <<study_tasks, profiles, now, ticks, cls, plan, quiz>>

\* the error answered with 500 while the handler carries on
UpdateTopic_carryOn(p, ok) ==
  /\ inv[p].pc = "updateTopic"
  /\ ok => confidenceCheck(inv[p].confidence)
  /\ IF ok
     THEN /\ topics' = [t \in DOMAIN topics |->
                IF t = inv[p].topicId /\ topics[t].user_id = inv[p].userId
                THEN [topics[t] EXCEPT !.status = inv[p].status,
                                       !.confidence = inv[p].confidence,
                                       !.last_quiz_score = inv[p].score]
                ELSE topics[t]]
          /\ log' = log
     ELSE /\ topics' = topics
          /\ log' = Append(log,
               [ userId |-> inv[p].userId, topicId |-> inv[p].topicId,
                 score |-> inv[p].score, confidence |-> inv[p].confidence,
                 todayDate |-> inv[p].todayDate, http |-> 500,
                 status |-> inv[p].status, revisionsScheduled |-> 0,
                 inserted |-> 0, streak |-> 0,
                 origin |-> inv[p].origin, task |-> inv[p].task,
                 lastStudyDate |-> inv[p].lastStudyDate,
                 currentStreak |-> inv[p].currentStreak,
                 newRevisionTasks |-> inv[p].newRevisionTasks ])
  /\ inv' = [inv EXCEPT ![p].pc = "selectStudyTask"]
  /\ UNCHANGED <<study_tasks, profiles, now, ticks, cls, plan, quiz>>

\* topics.update(...).eq('id', topicId).eq('user_id', userId)
UpdateTopic(p, ok) ==
  /\ inv[p].pc = "updateTopic"
  /\ ok => confidenceCheck(inv[p].confidence)
  /\ IF ok
     THEN /\ topics' = [t \in DOMAIN topics |->
                IF t = inv[p].topicId /\ topics[t].user_id = inv[p].userId
                THEN [topics[t] EXCEPT !.status = inv[p].status,
                                       !.confidence = inv[p].confidence,
                                       !.last_quiz_score = inv[p].score]
                ELSE topics[t]]
          /\ inv' = [inv EXCEPT ![p].pc = "selectStudyTask"]
          /\ log' = log
     ELSE /\ topics' = topics
          /\ Respond(p, 500, 0, 0)     \* throw topicError -> catch
  /\ UNCHANGED <<study_tasks, profiles, now, ticks, cls, plan, quiz>>

\* rows of study_tasks matching the four .eq filters
StudyTasksFor(userId, topicId, date) ==
  { r \in BagToSet(study_tasks) :
      /\ r.user_id = userId /\ r.topic_id = topicId
      /\ r.scheduled_date = date /\ r.task_type = "study" }

RECURSIVE SumCopies(_)
SumCopies(rows) ==
  IF rows = {} THEN 0
  ELSE LET r == CHOOSE x \in rows : TRUE
       IN CopiesIn(r, study_tasks) + SumCopies(rows \ {r})

\* today = new Date()...; select('id')...maybeSingle(): the row when exactly
\* one matches, null (with an ignored error) when none or several do
SelectStudyTask(p) ==
  /\ inv[p].pc = "selectStudyTask"
  /\ LET today == toISODate(now)
         existingStudyTask ==
           SumCopies(StudyTasksFor(inv[p].userId, inv[p].topicId, today)) = 1
     IN inv' = [inv EXCEPT ![p].today = today,
                           ![p].pc = IF existingStudyTask
                                     THEN "selectRevisions"
                                     ELSE "insertStudyTask"]
  /\ UNCHANGED <<topics, study_tasks, profiles, now, ticks, log, cls, plan, quiz>>

InsertStudyTask(p, ok) ==
  /\ inv[p].pc = "insertStudyTask"
  /\ study_tasks' =
       IF ok
       THEN study_tasks (+) SetToBag({
              [ user_id |-> inv[p].userId, topic_id |-> inv[p].topicId,
                scheduled_date |-> inv[p].today,
                duration_minutes |-> STUDY_MINUTES, task_type |-> "study",
                require_quiz |-> FALSE, is_completed |-> TRUE ] })
       ELSE study_tasks
  /\ inv' = [inv EXCEPT ![p].pc = "selectRevisions"]
  /\ UNCHANGED <<topics, profiles, now, ticks, log, cls, plan, quiz>>

existingRevisions_mutant(userId, topicId, dates) ==
  { r.scheduled_date : r \in { x \in BagToSet(study_tasks) :
      /\ x.user_id = userId /\ x.topic_id = topicId
      /\ x.task_type = "study" /\ x.scheduled_date \in dates } }

\* select('scheduled_date') of the revision rows of (user, topic) whose
\* date is one of the scheduled dates
existingRevisions(userId, topicId, dates) ==
  { r.scheduled_date : r \in { x \in BagToSet(study_tasks) :
      /\ x.user_id = userId /\ x.topic_id = topicId
      /\ x.task_type = "revision" /\ x.scheduled_date \in dates } }

\* todayDate = new Date(); the schedule; the existence check; the filter
SelectRevisions(p) ==
  /\ inv[p].pc = "selectRevisions"
  /\ LET schedule == revisionSchedule(inv[p].status)
         existingDates == existingRevisions(inv[p].userId, inv[p].topicId,
                                            scheduledDates(now, schedule))
         tasks == newRevisionTasks(inv[p].userId, inv[p].topicId, now,
                                   schedule, existingDates)
     IN inv' = [inv EXCEPT ![p].todayDate = now,
                           ![p].schedule = schedule,
                           ![p].newRevisionTasks = tasks,
                           ![p].pc = IF Len(tasks) > 0
                                     THEN "insertRevisions"
                                     ELSE "selectProfile"]
  /\ UNCHANGED <<topics, study_tasks, profiles, now, ticks, log, cls, plan, quiz>>

\* a failed insert undoing the topic update
InsertRevisions_rollback(p, ok) ==
  /\ inv[p].pc = "insertRevisions"
  /\ IF ok
     THEN /\ study_tasks' = study_tasks (+) BagOfSeq(inv[p].newRevisionTasks)
          /\ inv' = [inv EXCEPT ![p].pc = "selectProfile",
                                ![p].inserted = Len(inv[p].newRevisionTasks)]
          /\ topics' = topics
     ELSE /\ study_tasks' = study_tasks
          /\ inv' = [inv EXCEPT ![p].pc = "selectProfile"]
          /\ topics' = [topics EXCEPT ![inv[p].topicId] =
                [@ EXCEPT !.status = "pending", !.confidence = "null",
                          !.last_quiz_score = -1]]
  /\ UNCHANGED <<profiles, now, ticks, log, cls, plan, quiz>>

\* an insert that first deletes the topic's open revision rows
InsertRevisions_replace(p, ok) ==
  /\ inv[p].pc = "insertRevisions"
  /\ IF ok
     THEN /\ study_tasks' =
               [ r \in { x \in BagToSet(study_tasks) :
                           ~(/\ x.task_type = "revision"
                             /\ x.topic_id = inv[p].topicId
                             /\ ~x.is_completed) } |->
                   CopiesIn(r, study_tasks) ]
                 (+) BagOfSeq(inv[p].newRevisionTasks)
          /\ inv' = [inv EXCEPT ![p].pc = "selectProfile",
                                ![p].inserted = Len(inv[p].newRevisionTasks)]
     ELSE /\ study_tasks' = study_tasks
          /\ inv' = [inv EXCEPT ![p].pc = "selectProfile"]
  /\ UNCHANGED <<topics, profiles, now, ticks, log, cls, plan, quiz>>

\* study_tasks.insert(newRevisionTasks)
InsertRevisions(p, ok) ==
  /\ inv[p].pc = "insertRevisions"
  /\ IF ok
     THEN /\ study_tasks' = study_tasks (+) BagOfSeq(inv[p].newRevisionTasks)
          /\ inv' = [inv EXCEPT ![p].pc = "selectProfile",
                                ![p].inserted = Len(inv[p].newRevisionTasks)]
     ELSE /\ study_tasks' = study_tasks
          /\ inv' = [inv EXCEPT ![p].pc = "selectProfile"]
  /\ UNCHANGED <<topics, profiles, now, ticks, log, cls, plan, quiz>>

\* a streak that counts every completion of a day
newStreak_perCompletion(lastStudyDate, currentStreak, todayDate) ==
  IF lastStudyDate = toISODate(todayDate - 1) THEN currentStreak + 1
  ELSE IF lastStudyDate = toISODate(todayDate) THEN currentStreak + 1
       ELSE 1

newStreak(lastStudyDate, currentStreak, todayDate) ==
  IF lastStudyDate = toISODate(todayDate - 1) THEN currentStreak + 1
  ELSE IF lastStudyDate = toISODate(todayDate)
       THEN (IF currentStreak = 0 THEN 1 ELSE currentStreak)
       ELSE 1

\* profiles.select('last_study_date, current_streak')...single()
SelectProfile(p) ==
  /\ inv[p].pc = "selectProfile"
  /\ LET profileData == profiles[inv[p].userId]
     IN inv' = [inv EXCEPT
          ![p].lastStudyDate = profileData.last_study_date,
          ![p].currentStreak = profileData.current_streak,
          ![p].newStreak = newStreak(profileData.last_study_date,
                                     profileData.current_streak,
                                     inv[p].todayDate),
          ![p].pc = "updateProfile"]
  /\ UNCHANGED <<topics, study_tasks, profiles, now, ticks, log, cls, plan, quiz>>

\* profiles.update(...), then the 200 response
UpdateProfile(p) ==
  /\ inv[p].pc = "updateProfile"
  /\ profiles' = [profiles EXCEPT ![inv[p].userId] =
       [@ EXCEPT !.last_study_date = toISODate(inv[p].todayDate),
                 !.current_streak = inv[p].newStreak]]
  /\ Respond(p, 200, Len(inv[p].newRevisionTasks), inv[p].newStreak)
  /\ UNCHANGED <<topics, study_tasks, now, ticks, cls, plan, quiz>>

\* midnight UTC passes
Tick ==
  /\ ticks < MaxTicks
  /\ now' = now + 1
  /\ ticks' = ticks + 1
  /\ UNCHANGED <<topics, study_tasks, profiles, inv, log, cls, plan, quiz>>

\* the awaited calls of an invocation, in the order of the code
HandlerSteps(p) ==
  \/ \E ok \in BOOLEAN : UpdateTopic(p, ok)
  \/ SelectStudyTask(p)
  \/ \E ok \in BOOLEAN : InsertStudyTask(p, ok)
  \/ SelectRevisions(p)
  \/ \E ok \in BOOLEAN : InsertRevisions(p, ok)
  \/ SelectProfile(p)
  \/ UpdateProfile(p)

Handler(p) ==
  \/ \E t \in TopicIds, q \in QuizResults :
       ReceiveRequest(p, topicOwner[t], t, q[1], q[2])
  \/ HandlerSteps(p)

Init == InitDb /\ cls = NoCls /\ plan = NoPlan /\ quiz = NoQuiz

(***************************************************************************)
(* The daily allocator of the Plan page.                                   *)
(*                                                                         *)
(* A topic is [id, subject, status, confidence]; name, content, chapter    *)
(* and colour are carried through untouched and left out.  Weights are     *)
(* kept as exact fractions [num, den].  On the inputs of this model (at    *)
(* most three subjects, pending topics with confidence null, 'strong' or   *)
(* 'weak', the two-subject scenario of ten topics each, and the scenario   *)
(* of four subjects of equal weight, whose shares are exactly 1/4) the     *)
(* double precision product topicsToAllocate * shareRatio lies on the same *)
(* side of every half as the exact quotient, so Math.round is taken on the *)
(* exact value.                                                            *)
(***************************************************************************)
SubjectIds == <<"A", "B", "C", "D">>
PendingConfidences == {"null", "strong", "weak"}
Shapes == {"blocks", "interleaved"}

RECURSIVE SumSeq(_)
SumSeq(s) == IF s = << >> THEN 0 ELSE Head(s) + SumSeq(Tail(s))

RECURSIVE ProdSeq(_)
ProdSeq(s) == IF s = << >> THEN 1 ELSE Head(s) * ProdSeq(Tail(s))

RECURSIVE Flatten(_)
Flatten(ss) == IF ss = << >> THEN << >> ELSE Head(ss) \o Flatten(Tail(ss))

getSubjectWeight_mutant(ts) ==
  LET confidenceLevels == SelectSeq(ts, LAMBDA t : t.confidence # "null")
  IN IF Len(confidenceLevels) = 0 THEN [num |-> 10, den |-> 10]
     ELSE [num |-> 10 * Len(confidenceLevels), den |-> 10 * Len(confidenceLevels)]

\* the labels of the confidence column in place of 'strong' and 'weak'
getSubjectWeight_columnLabels(ts) ==
  LET confidenceLevels == SelectSeq(ts, LAMBDA t : t.confidence # "null")
      strongCount == Len(SelectSeq(confidenceLevels, LAMBDA t : t.confidence = "high"))
      weakCount == Len(SelectSeq(confidenceLevels, LAMBDA t : t.confidence = "low"))
      mediumCount == Len(confidenceLevels) - strongCount - weakCount
  IN IF Len(confidenceLevels) = 0 THEN [num |-> 10, den |-> 10]
     ELSE [num |-> strongCount * 8 + mediumCount * 10 + weakCount * 15,
           den |-> 10 * Len(confidenceLevels)]

\* strong = 0.8, medium = 1.0, weak = 1.5, averaged over the topics that
\* carry a confidence; 1.0 when none does
getSubjectWeight(ts) ==
  LET confidenceLevels == SelectSeq(ts, LAMBDA t : t.confidence # "null")
      strongCount == Len(SelectSeq(confidenceLevels, LAMBDA t : t.confidence = "strong"))
      weakCount == Len(SelectSeq(confidenceLevels, LAMBDA t : t.confidence = "weak"))
      mediumCount == Len(confidenceLevels) - strongCount - weakCount
  IN IF Len(confidenceLevels) = 0 THEN [num |-> 10, den |-> 10]
     ELSE [num |-> strongCount * 8 + mediumCount * 10 + weakCount * 15,
           den |-> 10 * Len(confidenceLevels)]

\* Math.floor(dailyHours * 60 / AVERAGE_TOPIC_MINUTES), dailyHours = q / 4
maxTopicsToday(quarterHours) == (quarterHours * 15) \div AVERAGE_TOPIC_MINUTES

\* the test on an unset status left out
pendingTopics_onlyPending(ts) ==
  SelectSeq(ts, LAMBDA t : t.status = "pending")

\* topics.filter(t => t.status === 'pending' || !t.status)
pendingTopics(ts) ==
  SelectSeq(ts, LAMBDA t : t.status = "pending" \/ t.status = "null")

\* keys of the Map subjectGroups, in insertion order
RECURSIVE subjectOrder(_)
subjectOrder(ts) ==
  IF ts = << >> THEN << >>
  ELSE LET rest == subjectOrder(SelectSeq(Tail(ts),
                      LAMBDA t : t.subject # Head(ts).subject))
       IN <<Head(ts).subject>> \o rest

\* the array subjectWeights
subjectWeights(pending) ==
  LET order == subjectOrder(pending)
  IN [ i \in DOMAIN order |->
         LET group == SelectSeq(pending, LAMBDA t : t.subject = order[i])
         IN [subjectId |-> order[i], weight |-> getSubjectWeight(group),
             topics |-> group] ]

Min(a, b) == IF a < b THEN a ELSE b
Max(a, b) == IF a > b THEN a ELSE b

\* Math.round(topicsToAllocate * (weight / totalWeight)), with
\* weight = a / p and totalWeight = s / p
roundShare(topicsToAllocate, a, s) == (2 * topicsToAllocate * a + s) \div (2 * s)

\* Math.max(1, Math.round(topicsToAllocate * shareRatio)) per subject
shareCounts(sws, topicsToAllocate) ==
  LET p == ProdSeq([i \in DOMAIN sws |-> sws[i].weight.den])
      a == [i \in DOMAIN sws |-> sws[i].weight.num * (p \div sws[i].weight.den)]
      s == SumSeq(a)
  IN [ i \in DOMAIN sws |-> Max(1, roundShare(topicsToAllocate, a[i], s)) ]

\* Math.max(1, ...) left out
firstPass_nomax(sws, topicsToAllocate) ==
  [ i \in DOMAIN sws |->
      LET topicCount == Min(roundShare(topicsToAllocate,
                                       sws[i].weight.num * (ProdSeq([k \in DOMAIN sws |-> sws[k].weight.den]) \div sws[i].weight.den),
                                       SumSeq([k \in DOMAIN sws |-> sws[k].weight.num * (ProdSeq([n \in DOMAIN sws |-> sws[n].weight.den]) \div sws[k].weight.den)])),
                            Len(sws[i].topics))
      IN [subjectId |-> sws[i].subjectId, weight |-> sws[i].weight,
          topicCount |-> topicCount,
          topics |-> SubSeq(sws[i].topics, 1, topicCount)] ]

\* first pass: share of the weight, at least one, at most what the subject has
firstPass(sws, topicsToAllocate) ==
  LET counts == shareCounts(sws, topicsToAllocate)
  IN [ i \in DOMAIN sws |->
         LET topicCount == Min(counts[i], Len(sws[i].topics))
         IN [subjectId |-> sws[i].subjectId, weight |-> sws[i].weight,
             topicCount |-> topicCount,
             topics |-> SubSeq(sws[i].topics, 1, topicCount)] ]

Allocated(dist) == SumSeq([i \in DOMAIN dist |-> dist[i].topicCount])

\* the comparison of the reduce reversed: the last of the smallest counts
maxDist_reversed(dist) ==
  CHOOSE i \in DOMAIN dist :
    /\ \A j \in DOMAIN dist : dist[j].topicCount >= dist[i].topicCount
    /\ \A j \in DOMAIN dist : j > i => dist[j].topicCount > dist[i].topicCount

\* distribution.reduce((a, b) => a.topicCount > b.topicCount ? a : b):
\* the last entry among those with the largest count
maxDist(dist) ==
  CHOOSE i \in DOMAIN dist :
    /\ \A j \in DOMAIN dist : dist[j].topicCount <= dist[i].topicCount
    /\ \A j \in DOMAIN dist : j > i => dist[j].topicCount < dist[i].topicCount

Decrement(dist, i) ==
  [dist EXCEPT ![i] = [@ EXCEPT !.topicCount = @ - 1,
                                !.topics = SubSeq(dist[i].topics, 1, dist[i].topicCount - 1)]]

\* the loop left out: nothing is trimmed
trimLoop_skipped(dist, topicsToAllocate) == dist

\* allocatedTopics.pop() left out: the loop runs until every count is 1
trimLoop_nopop(dist, topicsToAllocate) ==
  IF Allocated(dist) > topicsToAllocate /\ Len(dist) > 0
  THEN [ i \in DOMAIN dist |->
           [dist[i] EXCEPT !.topicCount = 1, !.topics = SubSeq(dist[i].topics, 1, 1)] ]
  ELSE dist

\* topicCount > 0 in place of topicCount > 1
RECURSIVE trimLoop_nofloor(_, _)
trimLoop_nofloor(dist, topicsToAllocate) ==
  IF Allocated(dist) > topicsToAllocate /\ Len(dist) > 0
  THEN IF dist[maxDist(dist)].topicCount > 0
       THEN trimLoop_nofloor(Decrement(dist, maxDist(dist)), topicsToAllocate)
       ELSE dist
  ELSE dist

\* the loop condition with >= in place of >
RECURSIVE trimLoop_offByOne(_, _)
trimLoop_offByOne(dist, topicsToAllocate) ==
  IF Allocated(dist) >= topicsToAllocate /\ Len(dist) > 0
  THEN IF dist[maxDist(dist)].topicCount > 1
       THEN trimLoop_offByOne(Decrement(dist, maxDist(dist)), topicsToAllocate)
       ELSE dist
  ELSE dist

\* while (allocatedTopics.length > topicsToAllocate && distribution.length > 0)
RECURSIVE trimLoop(_, _)
trimLoop(dist, topicsToAllocate) ==
  IF Allocated(dist) > topicsToAllocate /\ Len(dist) > 0
  THEN IF dist[maxDist(dist)].topicCount > 1
       THEN trimLoop(Decrement(dist, maxDist(dist)), topicsToAllocate)
       ELSE dist
  ELSE dist

\* a sort that puts the later of two equal counts first
RECURSIVE sortByCount_unstable(_)
sortByCount_unstable(dist) ==
  IF dist = << >> THEN << >>
  ELSE LET x == dist[Len(dist)]
           front == sortByCount_unstable(SubSeq(dist, 1, Len(dist) - 1))
           keep == SelectSeq(front, LAMBDA d : d.topicCount > x.topicCount)
           after == SelectSeq(front, LAMBDA d : d.topicCount <= x.topicCount)
       IN keep \o <<x>> \o after

\* the topicCounts of distribution at the loop's entry and after each of
\* its iterations
RECURSIVE trimSteps(_, _)
trimSteps(dist, topicsToAllocate) ==
  LET counts == [i \in DOMAIN dist |-> dist[i].topicCount]
  IN IF Allocated(dist) > topicsToAllocate /\ Len(dist) > 0
     THEN IF dist[maxDist(dist)].topicCount > 1
          THEN <<counts>> \o trimSteps(Decrement(dist, maxDist(dist)), topicsToAllocate)
          ELSE <<counts>>
     ELSE <<counts>>

\* distribution.sort((a, b) => b.topicCount - a.topicCount), a stable sort
RECURSIVE sortByCount(_)
sortByCount(dist) ==
  IF dist = << >> THEN << >>
  ELSE LET x == dist[Len(dist)]
           front == sortByCount(SubSeq(dist, 1, Len(dist) - 1))
           keep == SelectSeq(front, LAMBDA d : d.topicCount >= x.topicCount)
           after == SelectSeq(front, LAMBDA d : d.topicCount < x.topicCount)
       IN keep \o <<x>> \o after

\* the run of the trim loop inside calculateDynamicDistribution
trimTrace(ts, quarterHours) ==
  LET pending == pendingTopics(ts)
      topicsToAllocate == Min(maxTopicsToday(quarterHours), Len(pending))
  IN IF Len(pending) = 0 THEN << >>
     ELSE trimSteps(firstPass(subjectWeights(pending), topicsToAllocate),
                    topicsToAllocate)

calculateDynamicDistribution(ts, quarterHours) ==
  LET pending == pendingTopics(ts)
  IN IF Len(pending) = 0
     THEN [distribution |-> << >>, totalTopics |-> << >>]
     ELSE LET topicsToAllocate == Min(maxTopicsToday(quarterHours), Len(pending))
              first == firstPass(subjectWeights(pending), topicsToAllocate)
              distribution == sortByCount(trimLoop(first, topicsToAllocate))
          IN [distribution |-> distribution,
              totalTopics |-> Flatten([i \in DOMAIN distribution |->
                                          distribution[i].topics])]

(***************************************************************************)
(* Inputs of the allocator: per subject the confidences of its pending     *)
(* topics, laid out subject after subject behind a topic of the last       *)
(* subject that is already done, or interleaved, the first topic of each   *)
(* subject with status unset.                                              *)
(***************************************************************************)
ConfRank(c) == IF c = "null" THEN 0 ELSE IF c = "strong" THEN 1 ELSE 2

SubjectProfiles ==
  { f \in UNION { [1..n -> PendingConfidences] : n \in 1..MaxPerSubject } :
      \A i \in DOMAIN f : \A j \in DOMAIN f : i < j => ConfRank(f[i]) <= ConfRank(f[j]) }

\* up to three subjects of any profile; a fourth appears in the scenarios
SubjectInputs ==
  UNION { [1..k -> SubjectProfiles] : k \in 0..(Len(SubjectIds) - 1) }

\* the scenario of two subjects with ten pending topics each, and the one
\* of four subjects with two topics each that carry no confidence
ScenarioInputs ==
  { << [i \in 1..10 |-> "weak"], [i \in 1..10 |-> "strong"] >>,
    << [i \in 1..10 |-> "strong"], [i \in 1..10 |-> "weak"] >>,
    [s \in 1..4 |-> [i \in 1..2 |-> "null"]] }

Topic(profs, s, i, shape) ==
  [ id |-> <<SubjectIds[s], i>>, subject |-> SubjectIds[s],
    status |-> IF shape = "interleaved" /\ i = 1 THEN "null" ELSE "pending",
    confidence |-> profs[s][i] ]

DoneTopic(s) ==
  [ id |-> <<SubjectIds[s], 0>>, subject |-> SubjectIds[s],
    status |-> "strong", confidence |-> "high" ]

BuildTopics(profs, shape) ==
  LET blocks == Flatten([s \in DOMAIN profs |->
                  [i \in DOMAIN profs[s] |-> Topic(profs, s, i, shape)]])
      rounds == Flatten([i \in 1..10 |->
                  Flatten([s \in DOMAIN profs |->
                    IF i <= Len(profs[s]) THEN <<Topic(profs, s, i, shape)>>
                    ELSE << >>])])
  IN IF shape = "interleaved" THEN rounds
     ELSE <<DoneTopic(Max(1, Len(profs)))>> \o blocks

InitPlan ==
  /\ InitDb
  /\ cls = NoCls
  /\ quiz = NoQuiz
  /\ \E profs \in SubjectInputs \cup ScenarioInputs, shape \in Shapes,
        q \in 1..MaxQuarterHours :
       plan = [topics |-> BuildTopics(profs, shape), quarterHours |-> q,
               done |-> FALSE, distribution |-> << >>, totalTopics |-> << >>,
               todayTopics |-> << >>, revisionsDueCount |-> 0,
           trim |-> << >>]

Allocate ==
  /\ ~plan.done
  /\ LET r == calculateDynamicDistribution(plan.topics, plan.quarterHours)
     IN plan' = [plan EXCEPT !.done = TRUE,
                             !.trim = trimTrace(plan.topics, plan.quarterHours),
                             !.distribution = r.distribution,
                             !.totalTopics = r.totalTopics]
  /\ UNCHANGED <<topics, study_tasks, profiles, now, ticks, inv, log, cls, quiz>>

NextPlan == Allocate

SpecPlan == InitPlan /\ [][NextPlan]_vars

(***************************************************************************)
(* fetchData of the Plan page, for the signed-in user.  The column         *)
(* profiles.daily_study_hours is a nullable INTEGER without a CHECK:       *)
(* << >> is null, <<h>> the value h (onboarding writes 1..8, the table     *)
(* takes any integer).  The topics query and its sort give plan.topics.    *)
(***************************************************************************)
PageUser == "u1"
ProfileHours == {<< >>} \cup { <<h>> : h \in -1..3 }

\* .lte('scheduled_date', today) on two DATE values
DateLte(a, b) ==
  \/ a[1] < b[1]
  \/ a[1] = b[1] /\ a[2] < b[2]
  \/ a[1] = b[1] /\ a[2] = b[2] /\ a[3] <= b[3]

\* profileData?.daily_study_hours || 2
dailyHoursOrDefault(v) == IF v = << >> \/ v[1] = 0 THEN 2 ELSE v[1]

InitFetch ==
  /\ topics = [t \in TopicIds |->
                 [user_id |-> topicOwner[t], status |-> "pending",
                  confidence |-> "null", last_quiz_score |-> -1]]
  /\ study_tasks = EmptyBag
  /\ \E v \in ProfileHours :
       profiles = [u \in Users |->
                     [last_study_date |-> NullDate, current_streak |-> 0,
                      daily_study_hours |-> v]]
  /\ now \in StartDays
  /\ ticks = 0
  /\ inv = [p \in Procs |-> Idle]
  /\ log = << >>
  /\ cls = NoCls
  /\ quiz = NoQuiz
  /\ \E profs \in SubjectInputs, shape \in Shapes :
       plan = [NoPlan EXCEPT !.topics = BuildTopics(profs, shape)]

fetchData ==
  /\ ~plan.done
  /\ LET profileData == profiles[PageUser]
         sortedTopics == plan.topics
         today == toISODate(now)
         todayTasks == { r \in BagToSet(study_tasks) :
                          /\ r.user_id = PageUser /\ r.scheduled_date = today
                          /\ r.task_type = "study" }
         todayTaskTopicIds == { r.topic_id : r \in todayTasks }
         todayCompletedTopics ==
           SelectSeq(sortedTopics,
                     LAMBDA t : /\ t.status \notin {"null", "pending"}
                                /\ t.id \in todayTaskTopicIds)
         dailyHours == dailyHoursOrDefault(profileData.daily_study_hours)
         r == calculateDynamicDistribution(sortedTopics, 4 * dailyHours)
         revisionTasks == { x \in BagToSet(study_tasks) :
                             /\ x.user_id = PageUser /\ x.task_type = "revision"
                             /\ DateLte(x.scheduled_date, today)
                             /\ ~x.is_completed }
     IN plan' = [plan EXCEPT !.done = TRUE,
                             !.revisionsDueCount = SumCopies(revisionTasks),
                             !.trim = trimTrace(sortedTopics, 4 * dailyHours),
                             !.quarterHours = 4 * dailyHours,
                             !.distribution = r.distribution,
                             !.totalTopics = r.totalTopics,
                             !.todayTopics = r.totalTopics \o todayCompletedTopics]
  /\ UNCHANGED <<topics, study_tasks, profiles, now, ticks, inv, log, cls, quiz>>

NextFetch == fetchData

SpecFetch == InitFetch /\ [][NextFetch]_vars

(***************************************************************************)
(* The classifier and the scheduler on their own: every score 0..100 with  *)
(* every confidence, and every status on every day of three years.         *)
(***************************************************************************)
InitClassify ==
  /\ InitDb
  /\ plan = NoPlan
  /\ quiz = NoQuiz
  /\ cls \in [score : 0..100, confidence : Confidences, status : {"none"},
              todayDate : {20089}, candidates : {<< >>}]

InitSchedule ==
  /\ InitDb
  /\ plan = NoPlan
  /\ quiz = NoQuiz
  /\ \E q \in QuizResults, d \in ScheduleDays :
       cls = [score |-> q[1], confidence |-> q[2], status |-> "none",
              todayDate |-> d, candidates |-> << >>]

Classify ==
  /\ cls.status = "none"
  /\ cls' = [cls EXCEPT !.status = classify(cls.score, cls.confidence)]
  /\ UNCHANGED <<topics, study_tasks, profiles, now, ticks, inv, log, plan, quiz>>

Schedule ==
  /\ cls.status # "none"
  /\ cls.candidates = << >>
  /\ cls' = [cls EXCEPT !.candidates =
       revisionCandidates("u1", "t1", cls.todayDate, revisionSchedule(cls.status))]
  /\ UNCHANGED <<topics, study_tasks, profiles, now, ticks, inv, log, plan, quiz>>

NextClassify == Classify \/ Schedule

SpecClassify == InitClassify /\ [][NextClassify]_vars

SpecSchedule == InitSchedule /\ [][NextClassify]_vars

(***************************************************************************)
(* Taking a quiz: the QuizModal component (Calendar, Dashboard) and the     *)
(* Quiz page.  A question is its correctAnswer, an answer the index of the *)
(* option chosen; currentIndex counts from 0 as in the code.  For fewer    *)
(* than 40 questions Math.round((c / n) * 100) in double precision is the  *)
(* exact quotient rounded half up.  quizzes_score is the score column of   *)
(* the quiz's row, mistakes the questions written to the mistakes table.   *)
(***************************************************************************)
Options == {0, 1}

\* Math.round((correct / n) * 100)
roundPercent(correct, n) == (200 * correct + n) \div (2 * n)

\* answers.reduce((acc, ans, idx) => acc + (ans === questions[idx].correctAnswer ? 1 : 0), 0)
correctCount(answers, questions) ==
  Cardinality({ idx \in DOMAIN answers : answers[idx] = questions[idx] })

InitQuiz ==
  /\ InitDb
  /\ cls = NoCls
  /\ plan = NoPlan
  /\ \E n \in 1..MaxQuestions, component \in {"QuizModal", "QuizPage"} :
       \E questions \in [1..n -> Options] :
         quiz = [NoQuiz EXCEPT
                   !.component = component,
                   !.questions = questions,
                   !.phase = "quiz",
                   \* the page fills answers with null, the modal starts empty
                   !.answers = IF component = "QuizPage"
                               THEN [i \in 1..n |-> -1] ELSE << >>]

\* QuizModal.handleAnswer
ModalHandleAnswer(index) ==
  /\ quiz.component = "QuizModal" /\ quiz.phase = "quiz"
  /\ quiz.selectedAnswer = -1
  /\ quiz' = [quiz EXCEPT !.selectedAnswer = index,
                          !.answers = Append(quiz.answers, index)]
  /\ UNCHANGED <<topics, study_tasks, profiles, now, ticks, inv, log, cls, plan>>

\* QuizModal.handleNext, last question: correctCount over answers, plus the
\* current answer once more
ModalFinalCorrect(q) ==
  correctCount(q.answers, q.questions)
    + (IF q.selectedAnswer = q.questions[q.currentIndex + 1] THEN 1 ELSE 0)

\* QuizModal.handleNext; the button is rendered once an answer is selected
ModalHandleNext ==
  /\ quiz.component = "QuizModal" /\ quiz.phase = "quiz"
  /\ quiz.selectedAnswer # -1
  /\ IF quiz.currentIndex < Len(quiz.questions) - 1
     THEN quiz' = [quiz EXCEPT !.currentIndex = quiz.currentIndex + 1,
                               !.selectedAnswer = -1]
     ELSE LET scorePercent == roundPercent(ModalFinalCorrect(quiz),
                                           Len(quiz.questions))
              allAnswers == Append(quiz.answers, quiz.selectedAnswer)
          IN quiz' = [quiz EXCEPT
                        !.score = scorePercent,
                        !.mistakes = { idx \in DOMAIN quiz.questions :
                                         allAnswers[idx] # quiz.questions[idx] },
                        !.quizzes_score = scorePercent,
                        !.phase = "result"]
  /\ UNCHANGED <<topics, study_tasks, profiles, now, ticks, inv, log, cls, plan>>

\* Quiz.handleAnswer
PageHandleAnswer(index) ==
  /\ quiz.component = "QuizPage" /\ quiz.phase = "quiz"
  /\ quiz.selectedAnswer = -1
  /\ quiz' = [quiz EXCEPT !.selectedAnswer = index,
                          !.answers[quiz.currentIndex + 1] = index]
  /\ UNCHANGED <<topics, study_tasks, profiles, now, ticks, inv, log, cls, plan>>

\* Quiz.handleNext; the button is there before the last question and
\* enabled once an answer is selected
PageHandleNext ==
  /\ quiz.component = "QuizPage" /\ quiz.phase = "quiz"
  /\ quiz.selectedAnswer # -1
  /\ quiz.currentIndex < Len(quiz.questions) - 1
  /\ quiz' = [quiz EXCEPT !.currentIndex = quiz.currentIndex + 1,
                          !.selectedAnswer = quiz.answers[quiz.currentIndex + 2]]
  /\ UNCHANGED <<topics, study_tasks, profiles, now, ticks, inv, log, cls, plan>>

\* Quiz.handlePrev
PageHandlePrev ==
  /\ quiz.component = "QuizPage" /\ quiz.phase = "quiz"
  /\ quiz.currentIndex > 0
  /\ quiz' = [quiz EXCEPT !.currentIndex = quiz.currentIndex - 1,
                          !.selectedAnswer = quiz.answers[quiz.currentIndex]]
  /\ UNCHANGED <<topics, study_tasks, profiles, now, ticks, inv, log, cls, plan>>

\* Quiz.handleSubmitQuiz; the button is on the last question and enabled
\* once every question has an answer
PageHandleSubmitQuiz ==
  /\ quiz.component = "QuizPage" /\ quiz.phase = "quiz"
  /\ quiz.currentIndex = Len(quiz.questions) - 1
  /\ \A i \in DOMAIN quiz.answers : quiz.answers[i] # -1
  /\ LET scorePercent == roundPercent(correctCount(quiz.answers, quiz.questions),
                                      Len(quiz.questions))
     IN quiz' = [quiz EXCEPT
                   !.score = scorePercent,
                   !.mistakes = { idx \in DOMAIN quiz.questions :
                                    /\ quiz.answers[idx] # -1
                                    /\ quiz.answers[idx] # quiz.questions[idx] },
                   !.quizzes_score = scorePercent,
                   !.phase = "result"]
  /\ UNCHANGED <<topics, study_tasks, profiles, now, ticks, inv, log, cls, plan>>

NextQuiz ==
  \/ \E index \in Options : ModalHandleAnswer(index)
  \/ ModalHandleNext
  \/ \E index \in Options : PageHandleAnswer(index)
  \/ PageHandleNext
  \/ PageHandlePrev
  \/ PageHandleSubmitQuiz

SpecQuiz == InitQuiz /\ [][NextQuiz]_vars

\* requests served one after another
(***************************************************************************)
(* The Quiz page and the Revision page.                                    *)
(*                                                                         *)
(* The Quiz page saves a completion itself, one awaited call after the     *)
(* other; inv[p] holds its locals as it does for save-quiz-result, with    *)
(* origin = "page" and, when the quiz was opened from the Revision page,   *)
(* the revision task it was opened from.  The log records the toast:       *)
(* 200 for 'Great job! Topic completed.', 500 for 'Failed to save          *)
(* results'.                                                               *)
(***************************************************************************)
\* the inline classification of Quiz.handleConfidenceSubmit
quizPageStatus(score, selectedConfidence) ==
  IF score >= 80 /\ selectedConfidence = "high" THEN "strong"
  ELSE IF score >= 50 \/ selectedConfidence = "medium" THEN "needs_revision"
  ELSE "weak"

\* revisionDates of the Quiz page, in days after todayDate
quizPageRevisionDays(status) ==
  IF status = "strong" THEN <<7, 21>>
  ELSE IF status = "needs_revision" THEN <<3, 7>>
  ELSE <<1>>

\* revisionDates.map(...): is_completed is left to the column default
quizPageRevisionTasks(userId, topicId, todayDate, status) ==
  LET days == quizPageRevisionDays(status)
  IN [ i \in DOMAIN days |->
         [ user_id |-> userId,
           topic_id |-> topicId,
           scheduled_date |-> toISODate(todayDate + days[i]),
           duration_minutes |-> 20,
           task_type |-> "revision",
           require_quiz |-> (status = "weak"),
           is_completed |-> FALSE ] ]

\* /quiz/:topicId opened from the Plan page
OpenQuiz(p, topicId) ==
  /\ inv[p].pc = "idle"
  /\ Len(log) + Cardinality(InFlight) < MaxCalls
  /\ inv' = [inv EXCEPT ![p] =
       [Idle EXCEPT !.pc = "quiz", !.origin = "page",
                    !.userId = topicOwner[topicId], !.topicId = topicId]]
  /\ UNCHANGED <<topics, study_tasks, profiles, now, ticks, log, cls, plan, quiz>>

\* Revision.fetchTasks: the user's open revision tasks due today or earlier
fetchTasks(userId) ==
  { r \in BagToSet(study_tasks) :
      /\ r.user_id = userId /\ r.task_type = "revision"
      /\ ~r.is_completed /\ DateLte(r.scheduled_date, toISODate(now)) }

\* Start Quiz / Start Revision on a task card: navigate to the Quiz page
handleStartRevision(p, task) ==
  /\ inv[p].pc = "idle"
  /\ Len(log) + Cardinality(InFlight) < MaxCalls
  /\ task \in fetchTasks(task.user_id)
  /\ inv' = [inv EXCEPT ![p] =
       [Idle EXCEPT !.pc = "quiz", !.origin = "page",
                    !.userId = task.user_id, !.topicId = task.topic_id,
                    !.task = <<task>>]]
  /\ UNCHANGED <<topics, study_tasks, profiles, now, ticks, log, cls, plan, quiz>>

\* one row of the table updated in place
UpdateRow(old, new) ==
  (study_tasks (-) SetToBag({old})) (+) SetToBag({new})

\* Mark Complete, shown on the cards of tasks that do not require a quiz
handleMarkComplete(task, ok) ==
  /\ task \in fetchTasks(task.user_id)
  /\ ~task.require_quiz
  /\ study_tasks' = IF ok
                    THEN UpdateRow(task, [task EXCEPT !.is_completed = TRUE])
                    ELSE study_tasks
  /\ UNCHANGED <<topics, profiles, now, ticks, inv, log, cls, plan, quiz>>

\* the quiz is finished and the confidence chosen: the classification and
\* the topic update request
handleConfidenceSubmit(p, score, selectedConfidence) ==
  /\ inv[p].pc = "quiz"
  /\ inv' = [inv EXCEPT ![p].pc = "pageUpdateTopic",
                        ![p].score = score,
                        ![p].confidence = selectedConfidence,
                        ![p].status = quizPageStatus(score, selectedConfidence)]
  /\ UNCHANGED <<topics, study_tasks, profiles, now, ticks, log, cls, plan, quiz>>

\* topics.update(...).eq('id', topicId).eq('user_id', user.id)
PageUpdateTopic(p, ok) ==
  /\ inv[p].pc = "pageUpdateTopic"
  /\ ok => confidenceCheck(inv[p].confidence)
  /\ IF ok
     THEN /\ topics' = [t \in DOMAIN topics |->
                IF t = inv[p].topicId /\ topics[t].user_id = inv[p].userId
                THEN [topics[t] EXCEPT !.status = inv[p].status,
                                       !.confidence = inv[p].confidence,
                                       !.last_quiz_score = inv[p].score]
                ELSE topics[t]]
          /\ inv' = [inv EXCEPT ![p].pc = "pageInsertStudyTask"]
          /\ log' = log
     ELSE /\ topics' = topics
          /\ Respond(p, 500, 0, 0)     \* throw topicError -> catch, toast
  /\ UNCHANGED <<study_tasks, profiles, now, ticks, cls, plan, quiz>>

\* today = new Date()...; study_tasks.insert({...})
PageInsertStudyTask(p, ok) ==
  /\ inv[p].pc = "pageInsertStudyTask"
  /\ study_tasks' =
       IF ok
       THEN study_tasks (+) SetToBag({
              [ user_id |-> inv[p].userId, topic_id |-> inv[p].topicId,
                scheduled_date |-> toISODate(now),
                duration_minutes |-> 30, task_type |-> "study",
                require_quiz |-> FALSE, is_completed |-> TRUE ] })
       ELSE study_tasks
  /\ inv' = [inv EXCEPT ![p].today = toISODate(now),
                        ![p].pc = "pageInsertRevisions"]
  /\ UNCHANGED <<topics, profiles, now, ticks, log, cls, plan, quiz>>

\* todayDate = new Date(); study_tasks.insert(revisionTasks)
PageInsertRevisions(p, ok) ==
  /\ inv[p].pc = "pageInsertRevisions"
  /\ LET revisionTasks == quizPageRevisionTasks(inv[p].userId, inv[p].topicId,
                                                now, inv[p].status)
     IN /\ study_tasks' = IF ok THEN study_tasks (+) BagOfSeq(revisionTasks)
                          ELSE study_tasks
        /\ inv' = [inv EXCEPT ![p].todayDate = now,
                              ![p].newRevisionTasks = revisionTasks,
                              ![p].inserted = IF ok THEN Len(revisionTasks) ELSE 0,
                              ![p].pc = "pageSelectProfile"]
  /\ UNCHANGED <<topics, profiles, now, ticks, log, cls, plan, quiz>>

\* the test on yesterday left out
quizPageNewStreak_noYesterday(lastStudyDate, currentStreak, todayDate) ==
  IF lastStudyDate = toISODate(todayDate)
  THEN (IF currentStreak = 0 THEN 1 ELSE currentStreak)
  ELSE 1

\* the streak rule as the Quiz page writes it
quizPageNewStreak(lastStudyDate, currentStreak, todayDate) ==
  IF lastStudyDate = toISODate(todayDate - 1) THEN currentStreak + 1
  ELSE IF lastStudyDate = toISODate(todayDate)
       THEN (IF currentStreak = 0 THEN 1 ELSE currentStreak)
       ELSE 1

\* profiles.select('last_study_date, current_streak')...single()
PageSelectProfile(p) ==
  /\ inv[p].pc = "pageSelectProfile"
  /\ LET profileData == profiles[inv[p].userId]
     IN inv' = [inv EXCEPT
          ![p].lastStudyDate = profileData.last_study_date,
          ![p].currentStreak = profileData.current_streak,
          ![p].newStreak = quizPageNewStreak(profileData.last_study_date,
                                             profileData.current_streak,
                                             inv[p].todayDate),
          ![p].pc = "pageUpdateProfile"]
  /\ UNCHANGED <<topics, study_tasks, profiles, now, ticks, log, cls, plan, quiz>>

\* profiles.update(...), the toast and navigate('/plan')
PageUpdateProfile(p) ==
  /\ inv[p].pc = "pageUpdateProfile"
  /\ profiles' = [profiles EXCEPT ![inv[p].userId] =
       [@ EXCEPT !.last_study_date = toISODate(inv[p].todayDate),
                 !.current_streak = inv[p].newStreak]]
  /\ Respond(p, 200, Len(inv[p].newRevisionTasks), inv[p].newStreak)
  /\ UNCHANGED <<topics, study_tasks, now, ticks, cls, plan, quiz>>

\* the scores and confidences a student ends a quiz with
PageResults == { <<30, "low">>, <<90, "high">> }

\* the awaited calls of handleConfidenceSubmit, in the order of the code
QuizPageSteps(p) ==
  \/ \E ok \in BOOLEAN : PageUpdateTopic(p, ok)
  \/ \E ok \in BOOLEAN : PageInsertStudyTask(p, ok)
  \/ \E ok \in BOOLEAN : PageInsertRevisions(p, ok)
  \/ PageSelectProfile(p)
  \/ PageUpdateProfile(p)

QuizPage(p) ==
  \/ \E t \in TopicIds : OpenQuiz(p, t)
  \/ \E task \in BagToSet(study_tasks) : handleStartRevision(p, task)
  \/ \E q \in PageResults : handleConfidenceSubmit(p, q[1], q[2])
  \/ QuizPageSteps(p)

RevisionPage ==
  \E task \in BagToSet(study_tasks), ok \in BOOLEAN : handleMarkComplete(task, ok)

\* the tables a week after u1 completed t1 as strong on the Quiz page: the
\* first of its two revision tasks falls due on the start day
InitPageDb ==
  /\ now \in StartDays
  /\ topics = [t \in TopicIds |->
       IF t = "t1"
       THEN [user_id |-> topicOwner[t], status |-> "strong",
             confidence |-> "high", last_quiz_score |-> 90]
       ELSE [user_id |-> topicOwner[t], status |-> "pending",
             confidence |-> "null", last_quiz_score |-> -1]]
  /\ study_tasks =
       SetToBag({ [ user_id |-> "u1", topic_id |-> "t1",
                    scheduled_date |-> toISODate(now - 7),
                    duration_minutes |-> 30, task_type |-> "study",
                    require_quiz |-> FALSE, is_completed |-> TRUE ] })
       (+) BagOfSeq(quizPageRevisionTasks("u1", "t1", now - 7, "strong"))
  /\ profiles = [u \in Users |->
       [last_study_date |-> IF u = "u1" THEN toISODate(now - 7) ELSE NullDate,
        current_streak |-> IF u = "u1" THEN 1 ELSE 0,
        daily_study_hours |-> <<2>>]]
  /\ ticks = 0
  /\ inv = [p \in Procs |-> Idle]
  /\ log = << >>

InitPage ==
  /\ InitDb \/ InitPageDb
  /\ cls = NoCls /\ plan = NoPlan /\ quiz = NoQuiz

NextPage == QuizPage(1) \/ RevisionPage \/ Tick

SpecPage == InitPage /\ [][NextPage]_vars

(***************************************************************************)
(* The Dashboard and the older Revision component, which run the quiz in   *)
(* a modal and save the completion themselves.  Neither looks at the       *)
(* result of a database call, so a failed call is skipped silently.        *)
(***************************************************************************)
\* the inline classification of Dashboard.handleConfidenceSubmit
dashboardStatus(quizScore, confidence) ==
  IF quizScore >= 80 /\ confidence = "high" THEN "strong"
  ELSE IF quizScore >= 50 \/ confidence = "medium" THEN "needs_revision"
  ELSE "weak"

\* revisionDates of the Dashboard, in days after today
dashboardRevisionDays(status) ==
  IF status = "strong" THEN <<7, 21>>
  ELSE IF status = "needs_revision" THEN <<3, 7>>
  ELSE <<1>>

\* rows that carry the Quiz page's require_quiz
dashboardRevisionTasks_requireQuiz(userId, topicId, today, status) ==
  quizPageRevisionTasks(userId, topicId, today, status)

\* revisionDates.map(...): require_quiz and is_completed are left to the
\* column defaults
dashboardRevisionTasks(userId, topicId, today, status) ==
  LET days == dashboardRevisionDays(status)
  IN [ i \in DOMAIN days |->
         [ user_id |-> userId,
           topic_id |-> topicId,
           scheduled_date |-> toISODate(today + days[i]),
           duration_minutes |-> 20,
           task_type |-> "revision",
           require_quiz |-> FALSE,
           is_completed |-> FALSE ] ]

\* the tasks of today the Dashboard lists, those still to do
todayTasks(userId) ==
  { r \in BagToSet(study_tasks) :
      /\ r.user_id = userId /\ r.scheduled_date = toISODate(now)
      /\ ~r.is_completed }

\* the task's button: the quiz of its topic opens
handleCompleteTask(p, task) ==
  /\ inv[p].pc = "idle"
  /\ Len(log) + Cardinality(InFlight) < MaxCalls
  /\ task \in todayTasks(task.user_id)
  /\ inv' = [inv EXCEPT ![p] =
       [Idle EXCEPT !.pc = "dashQuiz", !.origin = "dashboard",
                    !.userId = task.user_id, !.topicId = task.topic_id,
                    !.task = <<task>>]]
  /\ UNCHANGED <<topics, study_tasks, profiles, now, ticks, log, cls, plan, quiz>>

\* Dashboard.handleConfidenceSubmit up to its first awaited call
Dashboard_handleConfidenceSubmit(p, quizScore, confidence) ==
  /\ inv[p].pc = "dashQuiz"
  /\ inv' = [inv EXCEPT ![p].pc = "dashUpdateTopic",
                        ![p].score = quizScore,
                        ![p].confidence = confidence,
                        ![p].status = dashboardStatus(quizScore, confidence)]
  /\ UNCHANGED <<topics, study_tasks, profiles, now, ticks, log, cls, plan, quiz>>

\* topics.update(...).eq('id', quizTopic.id)
DashUpdateTopic(p, ok) ==
  /\ inv[p].pc = "dashUpdateTopic"
  /\ ok => confidenceCheck(inv[p].confidence)
  /\ topics' = IF ok
               THEN [topics EXCEPT ![inv[p].topicId] =
                      [@ EXCEPT !.status = inv[p].status,
                                !.confidence = inv[p].confidence,
                                !.last_quiz_score = inv[p].score]]
               ELSE topics
  /\ inv' = [inv EXCEPT ![p].pc = "dashMarkTask"]
  /\ UNCHANGED <<study_tasks, profiles, now, ticks, log, cls, plan, quiz>>

\* study_tasks.update({is_completed: true}).eq('id', completingTask)
DashMarkTask(p, ok) ==
  /\ inv[p].pc = "dashMarkTask"
  /\ study_tasks' =
       IF ok /\ BagIn(inv[p].task[1], study_tasks)
       THEN UpdateRow(inv[p].task[1], [inv[p].task[1] EXCEPT !.is_completed = TRUE])
       ELSE study_tasks
  /\ inv' = [inv EXCEPT ![p].pc = "dashInsertRevisions"]
  /\ UNCHANGED <<topics, profiles, now, ticks, log, cls, plan, quiz>>

\* today = new Date(); study_tasks.insert(revisionTasks)
DashInsertRevisions(p, ok) ==
  /\ inv[p].pc = "dashInsertRevisions"
  /\ LET revisionTasks == dashboardRevisionTasks(inv[p].userId, inv[p].topicId,
                                                 now, inv[p].status)
     IN /\ study_tasks' = IF ok THEN study_tasks (+) BagOfSeq(revisionTasks)
                          ELSE study_tasks
        /\ inv' = [inv EXCEPT ![p].todayDate = now,
                              ![p].newRevisionTasks = revisionTasks,
                              ![p].inserted = IF ok THEN Len(revisionTasks) ELSE 0,
                              ![p].pc = "dashSelectProfile"]
  /\ UNCHANGED <<topics, profiles, now, ticks, log, cls, plan, quiz>>

\* the streak rule as the Dashboard writes it
dashboardNewStreak(lastStudyDate, currentStreak, today) ==
  IF lastStudyDate = toISODate(today - 1) THEN currentStreak + 1
  ELSE IF lastStudyDate = toISODate(today)
       THEN (IF currentStreak = 0 THEN 1 ELSE currentStreak)
       ELSE 1

DashSelectProfile(p) ==
  /\ inv[p].pc = "dashSelectProfile"
  /\ LET profileData == profiles[inv[p].userId]
     IN inv' = [inv EXCEPT
          ![p].lastStudyDate = profileData.last_study_date,
          ![p].currentStreak = profileData.current_streak,
          ![p].newStreak = dashboardNewStreak(profileData.last_study_date,
                                              profileData.current_streak,
                                              inv[p].todayDate),
          ![p].pc = "dashUpdateProfile"]
  /\ UNCHANGED <<topics, study_tasks, profiles, now, ticks, log, cls, plan, quiz>>

\* profiles.update(...), the toast and fetchData()
DashUpdateProfile(p) ==
  /\ inv[p].pc = "dashUpdateProfile"
  /\ profiles' = [profiles EXCEPT ![inv[p].userId] =
       [@ EXCEPT !.last_study_date = toISODate(inv[p].todayDate),
                 !.current_streak = inv[p].newStreak]]
  /\ Respond(p, 200, Len(inv[p].newRevisionTasks), inv[p].newStreak)
  /\ UNCHANGED <<topics, study_tasks, now, ticks, cls, plan, quiz>>

DashboardSteps(p) ==
  \/ \E ok \in BOOLEAN : DashUpdateTopic(p, ok)
  \/ \E ok \in BOOLEAN : DashMarkTask(p, ok)
  \/ \E ok \in BOOLEAN : DashInsertRevisions(p, ok)
  \/ DashSelectProfile(p)
  \/ DashUpdateProfile(p)

\* the inline classification of the older Revision.handleConfidenceSubmit
revisionStatus(quizScore, confidence) ==
  IF quizScore >= 80 /\ confidence = "high" THEN "strong"
  ELSE IF quizScore >= 50 \/ confidence = "medium" THEN "needs_revision"
  ELSE "weak"

\* its revisionDates, in days after todayDate
revisionRevisionDays(status) ==
  IF status = "strong" THEN <<7, 21>>
  ELSE IF status = "needs_revision" THEN <<3, 7>>
  ELSE <<1>>

revisionRevisionTasks(userId, topicId, todayDate, status) ==
  LET days == revisionRevisionDays(status)
  IN [ i \in DOMAIN days |->
         [ user_id |-> userId,
           topic_id |-> topicId,
           scheduled_date |-> toISODate(todayDate + days[i]),
           duration_minutes |-> 20,
           task_type |-> "revision",
           require_quiz |-> FALSE,
           is_completed |-> FALSE ] ]

\* its pendingTasks: the revision tasks due today or earlier, still to do
pendingTasks(userId) ==
  { r \in BagToSet(study_tasks) :
      /\ r.user_id = userId /\ r.task_type = "revision"
      /\ DateLte(r.scheduled_date, toISODate(now)) /\ ~r.is_completed }

\* the older handleStartRevision: the quiz opens in a modal
Revision_handleStartRevision(p, task) ==
  /\ inv[p].pc = "idle"
  /\ Len(log) + Cardinality(InFlight) < MaxCalls
  /\ task \in pendingTasks(task.user_id)
  /\ inv' = [inv EXCEPT ![p] =
       [Idle EXCEPT !.pc = "revQuiz", !.origin = "revision",
                    !.userId = task.user_id, !.topicId = task.topic_id,
                    !.task = <<task>>]]
  /\ UNCHANGED <<topics, study_tasks, profiles, now, ticks, log, cls, plan, quiz>>

Revision_handleConfidenceSubmit(p, quizScore, confidence) ==
  /\ inv[p].pc = "revQuiz"
  /\ inv' = [inv EXCEPT ![p].pc = "revUpdateTopic",
                        ![p].score = quizScore,
                        ![p].confidence = confidence,
                        ![p].status = revisionStatus(quizScore, confidence)]
  /\ UNCHANGED <<topics, study_tasks, profiles, now, ticks, log, cls, plan, quiz>>

\* topics.update(...).eq('id', quizTask.topic.id)
RevUpdateTopic(p, ok) ==
  /\ inv[p].pc = "revUpdateTopic"
  /\ ok => confidenceCheck(inv[p].confidence)
  /\ topics' = IF ok
               THEN [topics EXCEPT ![inv[p].topicId] =
                      [@ EXCEPT !.status = inv[p].status,
                                !.confidence = inv[p].confidence,
                                !.last_quiz_score = inv[p].score]]
               ELSE topics
  /\ inv' = [inv EXCEPT ![p].pc = "revMarkTask"]
  /\ UNCHANGED <<study_tasks, profiles, now, ticks, log, cls, plan, quiz>>

\* study_tasks.update({is_completed: true}).eq('id', quizTask.id)
RevMarkTask(p, ok) ==
  /\ inv[p].pc = "revMarkTask"
  /\ study_tasks' =
       IF ok /\ BagIn(inv[p].task[1], study_tasks)
       THEN UpdateRow(inv[p].task[1], [inv[p].task[1] EXCEPT !.is_completed = TRUE])
       ELSE study_tasks
  /\ inv' = [inv EXCEPT ![p].pc = "revInsertRevisions"]
  /\ UNCHANGED <<topics, profiles, now, ticks, log, cls, plan, quiz>>

\* todayDate = new Date(); study_tasks.insert(revisionTasks); the toast
RevInsertRevisions(p, ok) ==
  /\ inv[p].pc = "revInsertRevisions"
  /\ LET revisionTasks == revisionRevisionTasks(inv[p].userId, inv[p].topicId,
                                                now, inv[p].status)
         done == [inv[p] EXCEPT !.todayDate = now,
                                !.newRevisionTasks = revisionTasks,
                                !.inserted = IF ok THEN Len(revisionTasks) ELSE 0]
     IN /\ study_tasks' = IF ok THEN study_tasks (+) BagOfSeq(revisionTasks)
                          ELSE study_tasks
        /\ log' = Append(log,
             [ userId |-> done.userId, topicId |-> done.topicId,
               score |-> done.score, confidence |-> done.confidence,
               todayDate |-> done.todayDate, http |-> 200,
               status |-> done.status,
               revisionsScheduled |-> Len(revisionTasks),
               inserted |-> done.inserted, streak |-> 0,
               origin |-> done.origin, task |-> done.task,
               lastStudyDate |-> done.lastStudyDate,
               currentStreak |-> done.currentStreak,
               newRevisionTasks |-> revisionTasks ])
        /\ inv' = [inv EXCEPT ![p] = Idle]
  /\ UNCHANGED <<topics, profiles, now, ticks, cls, plan, quiz>>

RevisionSteps(p) ==
  \/ \E ok \in BOOLEAN : RevUpdateTopic(p, ok)
  \/ \E ok \in BOOLEAN : RevMarkTask(p, ok)
  \/ \E ok \in BOOLEAN : RevInsertRevisions(p, ok)

\* a completion of u1's topic t1 through any of the four copies
CopyResults == { <<30, "low">>, <<90, "high">> }

Copies(p) ==
  \/ \E q \in CopyResults : ReceiveRequest(p, "u1", "t1", q[1], q[2])
  \/ HandlerSteps(p)
  \/ OpenQuiz(p, "t1")
  \/ \E q \in CopyResults : handleConfidenceSubmit(p, q[1], q[2])
  \/ QuizPageSteps(p)
  \/ \E task \in BagToSet(study_tasks) : handleCompleteTask(p, task)
  \/ \E q \in CopyResults : Dashboard_handleConfidenceSubmit(p, q[1], q[2])
  \/ DashboardSteps(p)
  \/ \E task \in BagToSet(study_tasks) : Revision_handleStartRevision(p, task)
  \/ \E q \in CopyResults : Revision_handleConfidenceSubmit(p, q[1], q[2])
  \/ RevisionSteps(p)

NextCopies == Copies(1) \/ Tick

SpecCopies == InitPage /\ [][NextCopies]_vars

(***************************************************************************)
(* The streak: completions of one topic by one user, saved by the edge     *)
(* function or by the Quiz page, starting from the profiles a user can     *)
(* have: never studied, or last studied today or yesterday with a streak  *)
(* of 3 (a midnight that passes makes it the day before).  Every user      *)
(* starts from the same row; u2 takes no quiz and keeps it.                *)
(***************************************************************************)
StreakUser == "u1"
IdleUser == "u2"

StreakProfiles(day) ==
  { [last_study_date |-> NullDate, current_streak |-> 0,
     daily_study_hours |-> <<2>>] }
  \cup { [last_study_date |-> toISODate(day - back), current_streak |-> s,
          daily_study_hours |-> <<2>>] : back \in 0..1, s \in {3} }

InitStreak ==
  /\ now \in StartDays
  /\ topics = [t \in TopicIds |->
                 [user_id |-> topicOwner[t], status |-> "pending",
                  confidence |-> "null", last_quiz_score |-> -1]]
  /\ study_tasks = EmptyBag
  /\ \E row \in StreakProfiles(now) : profiles = [u \in Users |-> row]
  /\ ticks = 0
  /\ inv = [p \in Procs |-> Idle]
  /\ log = << >>
  /\ cls = NoCls /\ plan = NoPlan /\ quiz = NoQuiz

Completion(p) ==
  \/ ReceiveRequest(p, StreakUser, "t1", 30, "low")
  \/ HandlerSteps(p)
  \/ OpenQuiz(p, "t1")
  \/ handleConfidenceSubmit(p, 30, "low")
  \/ QuizPageSteps(p)

\* completions that overlap
NextStreak == (\E p \in Procs : Completion(p)) \/ Tick

SpecStreak == InitStreak /\ [][NextStreak]_vars

\* completions one after the other
NextStreakSeq == Completion(1) \/ Tick

SpecStreakSeq == InitStreak /\ [][NextStreakSeq]_vars

(***************************************************************************)
(* The weights of the Plan page on the topics table: one user's syllabus   *)
(* of three topics in two subjects, as the import leaves it, and the       *)
(* completions save-quiz-result records for it.  The body of a request is  *)
(* not validated, so a confidence of 'weak' can arrive.                    *)
(***************************************************************************)
SyllabusTopics == <<"t1", "t2", "t3">>
topicSubject(t) == IF t = "t1" THEN "A" ELSE "B"
WeightResults == { <<90, "high">>, <<30, "low">>, <<30, "weak">> }

\* Onboarding: topicsToInsert with status 'pending' and no confidence
InitWeights ==
  /\ topics = [t \in Range(SyllabusTopics) |->
                 [user_id |-> "u1", status |-> "pending",
                  confidence |-> "null", last_quiz_score |-> -1]]
  /\ study_tasks = EmptyBag
  /\ profiles = [u \in Users |->
                   [last_study_date |-> NullDate, current_streak |-> 0,
                    daily_study_hours |-> <<2>>]]
  /\ now \in StartDays
  /\ ticks = 0
  /\ inv = [p \in Procs |-> Idle]
  /\ log = << >>
  /\ cls = NoCls /\ plan = NoPlan /\ quiz = NoQuiz

\* the topics the Plan page selects for the user, as the allocator sees them
sortedTopics(userId) ==
  LET mine == SelectSeq(SyllabusTopics, LAMBDA t : topics[t].user_id = userId)
  IN [ i \in DOMAIN mine |->
         [ id |-> <<topicSubject(mine[i]), i>>,
           subject |-> topicSubject(mine[i]),
           status |-> topics[mine[i]].status,
           confidence |-> topics[mine[i]].confidence ] ]

NextWeights ==
  \/ \E t \in Range(SyllabusTopics), q \in WeightResults :
       ReceiveRequest(1, "u1", t, q[1], q[2])
  \/ HandlerSteps(1)

SpecWeights == InitWeights /\ [][NextWeights]_vars

Next == Handler(1) \/ Tick

Spec == Init /\ [][Next]_vars

\* requests served concurrently
NextConc == (\E p \in Procs : Handler(p)) \/ Tick

SpecConc == Init /\ [][NextConc]_vars

(***************************************************************************)
(* Properties.                                                             *)
(***************************************************************************)

\* C1: for every score in 0..100 and every confidence the classifier gives
\* strong exactly when score >= 80 and confidence = high, otherwise
\* needs_revision exactly when score >= 50 or confidence = medium, otherwise
\* weak; in particular (49, high) is weak, (30, medium) and (85, medium) are
\* needs_revision.
C1_ClassifierTable ==
  cls.status # "none" =>
    LET rule1 == cls.score >= 80 /\ cls.confidence = "high"
        rule2 == cls.score >= 50 \/ cls.confidence = "medium"
    IN /\ (cls.status = "strong") <=> rule1
       /\ (cls.status = "needs_revision") <=> (~rule1 /\ rule2)
       /\ (cls.status = "weak") <=> (~rule1 /\ ~rule2)
       /\ (cls.score = 49 /\ cls.confidence = "high") => cls.status = "weak"
       /\ (cls.score = 30 /\ cls.confidence = "medium")
            => cls.status = "needs_revision"
       /\ (cls.score = 85 /\ cls.confidence = "medium")
            => cls.status = "needs_revision"

C1_Witness ==
  cls.score = 49 /\ cls.confidence = "high" /\ cls.status = "weak"

\* number of revision rows of (user, topic) scheduled on a date
RevisionRows(userId, topicId, date) ==
  { r \in BagToSet(study_tasks) :
      /\ r.task_type = "revision" /\ r.user_id = userId
      /\ r.topic_id = topicId /\ r.scheduled_date = date }

RevisionCount(userId, topicId, date) ==
  SumCopies(RevisionRows(userId, topicId, date))

RevisionKeys ==
  { <<r.user_id, r.topic_id, r.scheduled_date>> :
      r \in { x \in BagToSet(study_tasks) : x.task_type = "revision" } }

SameQuizSameDay(i, j) ==
  /\ i < j
  /\ log[i].http = 200 /\ log[j].http = 200
  /\ log[i].userId = log[j].userId /\ log[i].topicId = log[j].topicId
  /\ log[i].score = log[j].score /\ log[i].confidence = log[j].confidence
  /\ log[i].todayDate = log[j].todayDate

C4_NoDuplicateRevisionConcurrent ==
  \A r \in BagToSet(study_tasks) :
    r.task_type = "revision" =>
      RevisionCount(r.user_id, r.topic_id, r.scheduled_date) <= 1

\* the calendar, counted a day at a time
IsLeapYear(y) == (y % 4 = 0 /\ y % 100 # 0) \/ y % 400 = 0

DaysInMonth(y, m) ==
  IF m = 2 THEN (IF IsLeapYear(y) THEN 29 ELSE 28)
  ELSE IF m \in {4, 6, 9, 11} THEN 30 ELSE 31

DaysInYear(y) == IF IsLeapYear(y) THEN 366 ELSE 365

\* the n-th day (from 0) of the months from month m of year y on
RECURSIVE DayOfMonths(_, _, _)
DayOfMonths(y, m, n) ==
  IF n >= DaysInMonth(y, m) THEN DayOfMonths(y, m + 1, n - DaysInMonth(y, m))
  ELSE <<y, m, n + 1>>

\* the n-th day (from 0) of the years from year y on
RECURSIVE DayOfYears(_, _)
DayOfYears(y, n) ==
  IF n >= DaysInYear(y) THEN DayOfYears(y + 1, n - DaysInYear(y))
  ELSE DayOfMonths(y, 1, n)

\* the table of section 4.2
TableOffsets(status) ==
  IF status = "strong" THEN {7, 21}
  ELSE IF status = "needs_revision" THEN {3, 7} ELSE {1}

\* the calendar date of an epoch day, counted from 2023-01-01 (day 19358)
CalendarDate(day) == DayOfYears(2023, day - 19358)

TableRows(userId, topicId, todayDate, status) ==
  { [ user_id |-> userId, topic_id |-> topicId,
      scheduled_date |-> CalendarDate(todayDate + k),
      duration_minutes |-> 20, task_type |-> "revision",
      require_quiz |-> (status = "weak"), is_completed |-> FALSE ] :
    k \in TableOffsets(status) }


\* C5: for every status the revision candidates are those of the table:
\* strong {7, 21}, needs_revision {3, 7}, both without quiz, weak {1} with
\* quiz; each is a revision task of 20 minutes dated today + offset calendar
\* days (strong on 2025-01-01 gives 2025-01-08 and 2025-01-22).
C5_CandidatesFollowTable ==
  cls.candidates # << >> =>
    /\ Range(cls.candidates) = TableRows("u1", "t1", cls.todayDate, cls.status)
    /\ Len(cls.candidates) = Cardinality(TableOffsets(cls.status))
    /\ (cls.status = "strong" /\ CalendarDate(cls.todayDate) = <<2025, 1, 1>>)
         => { r.scheduled_date : r \in Range(cls.candidates) }
              = {<<2025, 1, 8>>, <<2025, 1, 22>>}

C5_Witness ==
  /\ cls.status = "strong"
  /\ cls.todayDate = 20089
  /\ { r.scheduled_date : r \in Range(cls.candidates) }
       = {<<2025, 1, 8>>, <<2025, 1, 22>>}

\* what the allocator was given, counted from its input
PlanPending == { i \in DOMAIN plan.topics :
                   plan.topics[i].status \in {"pending", "null"} }

PlanSubjects == { plan.topics[i].subject : i \in PlanPending }

PendingOf(subject) ==
  Cardinality({ i \in PlanPending : plan.topics[i].subject = subject })

\* floor(dailyHours * 60 / 30) with dailyHours = quarterHours / 4
PlanMaxTopicsToday == plan.quarterHours \div 2

PlanTargetCount == Min(PlanMaxTopicsToday, Cardinality(PlanPending))

PlanTotal == SumSeq([i \in DOMAIN plan.distribution |->
                       plan.distribution[i].topicCount])

PlanFirstPass ==
  firstPass(subjectWeights(pendingTopics(plan.topics)), PlanTargetCount)

\* C6: the total of topicCount is at most max(maxTopicsToday, number of
\* subjects with pending work) and at most the number of pending topics.
C6_AllocatorConservation ==
  plan.done =>
    /\ PlanTotal <= Max(PlanMaxTopicsToday, Cardinality(PlanSubjects))
    /\ PlanTotal <= Cardinality(PlanPending)

\* the first pass gave more than the target and the loop trimmed it back
C6_Witness ==
  /\ plan.done
  /\ Cardinality(PlanSubjects) = 2
  /\ PlanMaxTopicsToday = 3
  /\ Allocated(PlanFirstPass) = 4
  /\ PlanTotal = 3

\* C7: for fixed topics, fewer daily hours never allocate more topics.
C7_AllocatorMonotone ==
  plan.done =>
    \A h1 \in 1..plan.quarterHours :
      Allocated(calculateDynamicDistribution(plan.topics, h1).distribution)
        <= PlanTotal

C7_Witness ==
  /\ plan.done
  /\ plan.quarterHours = 10
  /\ PlanTotal = 5
  /\ Allocated(PlanFirstPass) = 6
  /\ Allocated(calculateDynamicDistribution(plan.topics, 8).distribution) = 3

\* C8: every subject with a pending topic has topicCount >= 1 whenever the
\* target is at least the number of such subjects, and no count of the
\* result is below 1.
C8_AllocatorFloor ==
  plan.done =>
    /\ PlanTargetCount >= Cardinality(PlanSubjects) =>
         \A sub \in PlanSubjects :
           \E i \in DOMAIN plan.distribution :
             /\ plan.distribution[i].subjectId = sub
             /\ plan.distribution[i].topicCount >= 1
    /\ \A i \in DOMAIN plan.distribution : plan.distribution[i].topicCount >= 1

\* three subjects, a target of at least three, and a trimmed first pass
C8_Witness ==
  /\ plan.done
  /\ Cardinality(PlanSubjects) = 3
  /\ PlanTargetCount >= 3
  /\ Allocated(PlanFirstPass) > PlanTotal
  /\ \E i \in DOMAIN plan.distribution : plan.distribution[i].topicCount = 1

\* the subject all of whose pending topics carry the given confidence
AllOf(subject, confidence) ==
  /\ PendingOf(subject) = 10
  /\ \A i \in PlanPending :
       plan.topics[i].subject = subject => plan.topics[i].confidence = confidence

IdsOf(subject, n) == [i \in 1..n |-> <<subject, i>>]

\* C9: with A of ten pending topics all weak, B of ten all strong and
\* dailyHours = 3, maxTopicsToday is 6 and the result is 4 for A, then 2
\* for B, A's topics first.
C9_ScenarioSplit ==
  \A a \in PlanSubjects, b \in PlanSubjects :
    ( /\ plan.done
      /\ PlanSubjects = {a, b}
      /\ AllOf(a, "weak") /\ AllOf(b, "strong")
      /\ plan.quarterHours = 12 ) =>
    /\ PlanMaxTopicsToday = 6
    /\ Len(plan.distribution) = 2
    /\ plan.distribution[1].subjectId = a /\ plan.distribution[1].topicCount = 4
    /\ plan.distribution[2].subjectId = b /\ plan.distribution[2].topicCount = 2
    /\ PlanTotal = 6
    /\ [i \in DOMAIN plan.totalTopics |-> plan.totalTopics[i].id]
         = IdsOf(a, 4) \o IdsOf(b, 2)

\* the scenario with the strong subject first in the input
C9_Witness ==
  /\ plan.done
  /\ plan.quarterHours = 12
  /\ PlanSubjects = {"A", "B"}
  /\ AllOf("B", "weak") /\ AllOf("A", "strong")
  /\ plan.topics[2].subject = "A"
  /\ Len(plan.totalTopics) = 6

\* weight a.num / a.den greater than b.num / b.den
WeightGreater(a, b) == a.num * b.den > b.num * a.den

\* C10: of two subjects whose share of the target does not exceed their
\* number of pending topics, the one with the greater weight ends with at
\* least as many topics as the other.
C10_HeavierSubjectNotBehind ==
  plan.done =>
    LET sws == subjectWeights(pendingTopics(plan.topics))
        counts == shareCounts(sws, PlanTargetCount)
        uncapped == { sws[k].subjectId : k \in
                        { n \in DOMAIN sws : counts[n] <= PendingOf(sws[n].subjectId) } }
    IN \A i \in DOMAIN plan.distribution, j \in DOMAIN plan.distribution :
         LET a == plan.distribution[i]
             b == plan.distribution[j]
         IN (WeightGreater(a.weight, b.weight)
               /\ a.subjectId \in uncapped /\ b.subjectId \in uncapped)
              => a.topicCount >= b.topicCount

\* C11: when maxTopicsToday = 0 and some topic is pending, the result holds
\* exactly one topic for every subject with a pending topic.
C11_OnePerSubjectOnTinyBudget ==
  (plan.done /\ PlanMaxTopicsToday = 0 /\ PlanPending # {}) =>
    /\ Len(plan.distribution) = Cardinality(PlanSubjects)
    /\ \A sub \in PlanSubjects :
         /\ \E i \in DOMAIN plan.distribution :
              /\ plan.distribution[i].subjectId = sub
              /\ plan.distribution[i].topicCount = 1
         /\ Cardinality({ k \in DOMAIN plan.totalTopics :
                            plan.totalTopics[k].subject = sub }) = 1
    /\ Len(plan.totalTopics) = Cardinality(PlanSubjects)

\* a quarter of an hour a day and three subjects with two pending topics each
C11_Witness ==
  /\ plan.done
  /\ plan.quarterHours = 1
  /\ Cardinality(PlanSubjects) = 3
  /\ \A sub \in PlanSubjects : PendingOf(sub) = 2
  /\ Len(plan.totalTopics) = 3

\* C12: the allocator's topic list and its distribution are empty exactly
\* when no input topic is pending or unset (the allocator is total: it has
\* a result on every input).
C12_EmptyIffNoPending ==
  plan.done =>
    /\ (plan.totalTopics = << >>) <=> (PlanPending = {})
    /\ (plan.distribution = << >>) <=> (PlanPending = {})

\* an input whose only topic is done, and the empty result
C12_Witness ==
  /\ plan.done
  /\ Len(plan.topics) = 1
  /\ plan.topics[1].status = "strong"
  /\ plan.totalTopics = << >> /\ plan.distribution = << >>

\* positions of the pending topics of a subject in the input
PendingIdx(subject) ==
  { i \in PlanPending : plan.topics[i].subject = subject }

FirstPending(subject) ==
  CHOOSE i \in PendingIdx(subject) : \A j \in PendingIdx(subject) : i <= j

\* the k-th pending topic of a subject, in input order
NthPending(subject, k) ==
  plan.topics[CHOOSE i \in PendingIdx(subject) :
                Cardinality({ j \in PendingIdx(subject) : j <= i }) = k]

C14_WeakBelowFiftyUnlessHigh ==
  (cls.status # "none" /\ cls.score < 50 /\ cls.confidence # "high") =>
    cls.status = "weak"

\* C14 amended: for every score below 50 and every confidence other than
\* high and medium the classifier returns weak; with confidence medium it
\* returns needs_revision.
C14_WeakBelowFiftyLowConfidence ==
  (cls.status # "none" /\ cls.score < 50) =>
    /\ cls.confidence \notin {"high", "medium"} => cls.status = "weak"
    /\ cls.confidence = "medium" => cls.status = "needs_revision"

C14_Witness ==
  cls.score = 40 /\ cls.confidence = "low" /\ cls.status = "weak"

\* C15: the revisionsScheduled of every successful response equals the
\* number of revision rows the invocation added to study_tasks.
C15_ReportedEqualsInserted ==
  \A i \in DOMAIN log :
    log[i].http = 200 => log[i].revisionsScheduled = log[i].inserted

\* the revision insert of request p failed
RevisionInsertFailed(p) ==
  /\ inv[p].pc \in {"selectProfile", "updateProfile"}
  /\ Len(inv[p].newRevisionTasks) > 0
  /\ inv[p].inserted = 0

TopicShows(topicId, status, confidence, score) ==
  /\ topics[topicId].status = status
  /\ topics[topicId].confidence = confidence
  /\ topics[topicId].last_quiz_score = score

\* C16: after a topic update that succeeded and a revision insert that
\* failed, the topic keeps the status, confidence and score just written,
\* through the rest of the invocation and after its response.
C16_NoRollbackOfTopic ==
  /\ RevisionInsertFailed(1) =>
       TopicShows(inv[1].topicId, inv[1].status, inv[1].confidence, inv[1].score)
  /\ ( /\ Len(log) > 0
       /\ inv[1].pc \in {"idle", "updateTopic"}
       /\ log[Len(log)].http = 200
       /\ log[Len(log)].inserted < log[Len(log)].revisionsScheduled ) =>
       LET r == log[Len(log)]
       IN TopicShows(r.topicId, r.status, r.confidence, r.score)

\* a second quiz of a topic whose revision insert failed, answered
C16_Witness ==
  /\ Len(log) = 2
  /\ log[1].http = 200 /\ log[2].http = 200
  /\ log[1].topicId = log[2].topicId
  /\ log[1].status # log[2].status
  /\ log[2].revisionsScheduled = 2 /\ log[2].inserted = 0
  /\ topics[log[2].topicId].status = log[2].status

\* C17: a request whose score is outside 0..100 is not answered with
\* success, writes nothing to the topic and schedules no revision task.
C17_OutOfRangeScoreRejected ==
  /\ \A t \in TopicIds :
       topics[t].last_quiz_score = -1 \/ topics[t].last_quiz_score \in 0..100
  /\ \A i \in DOMAIN log :
       log[i].score \notin 0..100 =>
         /\ log[i].http # 200
         /\ log[i].status = "none"
         /\ log[i].inserted = 0

\* the requests for a topic that were answered with success, in order
CompletionsOf(t) ==
  SelectSeq(log, LAMBDA r : r.topicId = t /\ r.http = 200)

\* the request in flight has written topic t
WrittenInFlight(t) ==
  inv[1].pc \notin {"idle", "updateTopic"} /\ inv[1].topicId = t

\* C19: once a quiz of a topic has been completed, the topic's status is
\* classify(score, confidence) of the most recent completion, whatever the
\* status was before: one of strong, needs_revision, weak.
C19_StatusOfLastCompletion ==
  \A t \in TopicIds :
    /\ WrittenInFlight(t) =>
         /\ topics[t].status = classify(inv[1].score, inv[1].confidence)
         /\ topics[t].status \in {"strong", "needs_revision", "weak"}
    /\ (~WrittenInFlight(t) /\ CompletionsOf(t) # << >>) =>
         LET r == CompletionsOf(t)[Len(CompletionsOf(t))]
         IN /\ topics[t].status = classify(r.score, r.confidence)
            /\ topics[t].status \in {"strong", "needs_revision", "weak"}

\* a topic classified strong, then weak by a second quiz
C19_Witness ==
  /\ inv[1].pc = "idle"
  /\ Len(CompletionsOf("t1")) = 2
  /\ CompletionsOf("t1")[1].status = "strong"
  /\ CompletionsOf("t1")[2].score = 30 /\ CompletionsOf("t1")[2].confidence = "low"
  /\ topics["t1"].status = "weak"

\* C18: a plan computed for daily hours <= 0 is refused: the hours are not
\* replaced by another value and no topic is allocated.
C18_NonPositiveHoursRejected ==
  LET v == profiles[PageUser].daily_study_hours
  IN (plan.done /\ v # << >> /\ v[1] <= 0) =>
       /\ plan.quarterHours = 4 * v[1]
       /\ plan.distribution = << >>
       /\ plan.totalTopics = << >>

\* questions whose given answer is the correct one
QuizCorrect ==
  Cardinality({ i \in DOMAIN quiz.questions :
                  i \in DOMAIN quiz.answers /\ quiz.answers[i] = quiz.questions[i] })

\* C20: the score of a finished quiz of n >= 1 questions is an integer in
\* 0..100, equal to 100 * correct answers / n rounded to the nearest integer.
C20_ScoreIsPercentOfCorrect ==
  quiz.phase = "result" =>
    LET n == Len(quiz.questions)
    IN /\ quiz.score \in 0..100
       /\ 2 * n * quiz.score <= 200 * QuizCorrect + n
       /\ 200 * QuizCorrect + n < 2 * n * (quiz.score + 1)

\* the subjects of the first pass, in its order, and the final count of each
PlanOrder == subjectOrder(pendingTopics(plan.topics))

FinalCount(subject) ==
  SumSeq([i \in DOMAIN plan.distribution |->
            IF plan.distribution[i].subjectId = subject
            THEN plan.distribution[i].topicCount ELSE 0])

\* one iteration of the loop: one subject, whose count was the largest and
\* above 1, lost one topic
TrimStep(before, after) ==
  \E i \in DOMAIN before :
    /\ after = [before EXCEPT ![i] = before[i] - 1]
    /\ before[i] > 1
    /\ \A j \in DOMAIN before : before[j] <= before[i]

\* C24: when the first pass allocates more than targetCount, the trim loop
\* ends with a total of max(targetCount, number of subjects with pending
\* work), and each of its iterations decrements one subject whose count is
\* the largest at that moment and greater than 1.
C24_TrimLoop ==
  (plan.done /\ PlanPending # {} /\ SumSeq(plan.trim[1]) > PlanTargetCount) =>
    /\ PlanTotal = Max(PlanTargetCount, Cardinality(PlanSubjects))
    /\ \A k \in 1..(Len(plan.trim) - 1) : TrimStep(plan.trim[k], plan.trim[k + 1])
    /\ \A i \in DOMAIN PlanOrder :
         plan.trim[Len(plan.trim)][i] = FinalCount(PlanOrder[i])
    /\ \A i \in DOMAIN PlanOrder :
         plan.trim[1][i] >= 1 /\ plan.trim[1][i] <= PendingOf(PlanOrder[i])

\* a first pass of 2, 2, 2, 2 trimmed in two iterations to a target of 6
C24_Witness ==
  /\ plan.done
  /\ PlanTargetCount = 6
  /\ plan.trim = << <<2, 2, 2, 2>>, <<2, 2, 2, 1>>, <<2, 2, 1, 1>> >>
  /\ PlanTotal = 6

\* C25 as stated: when targetCount is at least the number of subjects with
\* pending work, the allocator returns exactly targetCount topics.
C25_TotalEqualsTarget ==
  (plan.done /\ PlanTargetCount >= Cardinality(PlanSubjects)) =>
    PlanTotal = PlanTargetCount

\* what the first pass gives, counted from the input: the rounded share of
\* the target, at least 1, at most the subject's pending topics
FirstPassTotal == IF PlanPending = {} THEN 0 ELSE SumSeq(plan.trim[1])

\* C25 amended: when targetCount is at least the number of subjects with
\* pending work, the allocator returns min(targetCount, what the first pass
\* allocated): exactly targetCount when the first pass reached it, and the
\* first pass's total, below targetCount, when it did not.
C25_TotalIsTargetOrFirstPass ==
  (plan.done /\ PlanTargetCount >= Cardinality(PlanSubjects)) =>
    /\ PlanTotal = Min(PlanTargetCount, FirstPassTotal)
    /\ PlanTotal <= PlanTargetCount

\* three subjects of equal weight and a target of 4: each gets round(4/3) = 1
C25_Witness ==
  /\ plan.done
  /\ Cardinality(PlanSubjects) = 3
  /\ PlanTargetCount = 4
  /\ FirstPassTotal = 3
  /\ PlanTotal = 3

\* a response is sent in this step
Responds(http) ==
  /\ Len(log') = Len(log) + 1
  /\ log'[Len(log')].http = http

\* C29: when the topic update of save-quiz-result fails, the response is
\* HTTP 500 and the invocation ends there: the step that answers 500 writes
\* no table, the failed update is the only step that answers 500, and no
\* study task, revision task or profile write of that invocation follows.
C29_FailedTopicUpdateStops ==
  [][ /\ \A p \in Procs : UpdateTopic(p, FALSE) => Responds(500)
      /\ Responds(500) =>
           /\ UNCHANGED <<topics, study_tasks, profiles>>
           /\ \E p \in Procs : /\ inv[p].pc = "updateTopic"
                               /\ inv'[p] = Idle
                               /\ log'[Len(log')].topicId = inv[p].topicId
      /\ \A p \in Procs :
           (inv[p].pc # "idle" /\ inv'[p].pc = "idle") =>
             (Responds(500) \/ Responds(200)) ]_vars

\* a first request answered 500 with every table as it was at the start
C29_Witness ==
  /\ Len(log) = 1
  /\ log[1].http = 500
  /\ log[1].status = "weak"
  /\ inv[1].pc = "idle"
  /\ topics[log[1].topicId].status = "pending"
  /\ study_tasks = EmptyBag
  /\ profiles[log[1].userId].current_streak = 0

\* C30: save-quiz-result never deletes or modifies a row of study_tasks:
\* every step leaves each existing row in place, as many times as before.
C30_StudyTasksOnlyGrow ==
  [][ study_tasks \sqsubseteq study_tasks' ]_vars

\* two completions of one topic whose revision rows are all in the table
C30_Witness ==
  /\ Len(log) = 2
  /\ log[1].http = 200 /\ log[2].http = 200
  /\ log[1].topicId = log[2].topicId
  /\ log[1].inserted > 0 /\ log[2].inserted > 0
  /\ BagCardinality(study_tasks) >= 1 + log[1].inserted + log[2].inserted

\* C21 as stated: the table never holds two revision tasks of one user and
\* topic on one scheduled date, whatever completions the Quiz page saved.
C21_NoDuplicateRevisions ==
  \A r \in BagToSet(study_tasks) :
    r.task_type = "revision" =>
      RevisionCount(r.user_id, r.topic_id, r.scheduled_date) = 1

\* C23 as stated, for a run that has ended: a revision task that requires a
\* quiz, was started from the Revision page and whose quiz and confidence
\* step were completed and saved, is completed.
C23_QuizRevisionGetsCompleted ==
  \A i \in DOMAIN log :
    (/\ log[i].origin = "page" /\ log[i].http = 200
     /\ log[i].task # << >> /\ log[i].task[1].require_quiz) =>
      /\ ~BagIn(log[i].task[1], study_tasks)
      /\ BagIn([log[i].task[1] EXCEPT !.is_completed = TRUE], study_tasks)

\* the streak rule in the words of the specification
StreakRule(lastStudyDate, currentStreak, todayDate) ==
  IF lastStudyDate = toISODate(todayDate - 1) THEN currentStreak + 1
  ELSE IF lastStudyDate = toISODate(todayDate)
       THEN Max(currentStreak, 1)
       ELSE 1

\* the completions of the streak user saved so far
Saved == SelectSeq(log, LAMBDA e : e.userId = StreakUser /\ e.http = 200)

\* the profile after the completions cs run one after the other
RECURSIVE Sequential(_, _)
Sequential(row, cs) ==
  IF cs = << >> THEN row
  ELSE Sequential(
         [row EXCEPT !.last_study_date = toISODate(Head(cs).todayDate),
                     !.current_streak =
                        StreakRule(row.last_study_date, row.current_streak,
                                   Head(cs).todayDate)],
         Tail(cs))

\* C22: when two or more completions of one user on one calendar day have
\* been saved, however their profile reads and writes interleaved, the
\* profile is the one that running them one after the other gives: the
\* day as last_study_date, and a streak at most one above the streak before
\* that day's completions.
C22_InterleavingsGiveSequentialStreak ==
  (/\ Len(Saved) >= 2
   /\ \A i \in DOMAIN Saved : Saved[i].todayDate = Saved[1].todayDate) =>
    /\ profiles[StreakUser] = Sequential(profiles[IdleUser], Saved)
    /\ profiles[StreakUser].last_study_date = toISODate(Saved[1].todayDate)
    /\ profiles[StreakUser].current_streak <= profiles[IdleUser].current_streak + 1

\* two completions of one day that both read the profile before either
\* wrote it, one through the edge function and one through the Quiz page
C22_Witness ==
  /\ Len(Saved) = 2
  /\ Saved[1].todayDate = Saved[2].todayDate
  /\ Saved[1].origin # Saved[2].origin
  /\ Saved[1].lastStudyDate = toISODate(Saved[1].todayDate - 1)
  /\ Saved[2].lastStudyDate = toISODate(Saved[1].todayDate - 1)
  /\ profiles[StreakUser].current_streak = 4

IsOne(w) == w.num = w.den

\* the topics of one subject among ts
OfSubject(ts, subject) == SelectSeq(ts, LAMBDA t : t.subject = subject)

\* C26: after the import and any completions, the stored confidences are
\* high, medium, low or unset, pending topics carry none, and
\* getSubjectWeight is 1.0 for every subject, over its pending topics and
\* over its topics that carry a confidence alike, so that the subjects with
\* pending work all have the share 1 / numberOfSubjects.
C26_AllWeightsAreOne ==
  LET all == sortedTopics("u1")
      weights == subjectWeights(pendingTopics(all))
  IN /\ \A i \in DOMAIN all :
          /\ all[i].confidence \in Confidences \cup {"null"}
          /\ all[i].status = "pending" => all[i].confidence = "null"
     /\ \A i \in DOMAIN weights : IsOne(weights[i].weight)
     /\ \A i \in DOMAIN all :
          IsOne(getSubjectWeight(OfSubject(all, all[i].subject)))
     /\ \A i \in DOMAIN weights : \A j \in DOMAIN weights :
          weights[i].weight.num * weights[j].weight.den
            = weights[j].weight.num * weights[i].weight.den

\* two subjects with pending work after completions stored 'high' and 'low'
C26_Witness ==
  /\ topics["t2"].confidence = "high"
  /\ topics["t3"].status = "pending"
  /\ topics["t1"].status = "pending"
  /\ Len(log) = 2 /\ log[1].http = 500 /\ log[1].confidence = "weak"
  /\ Len(subjectWeights(pendingTopics(sortedTopics("u1")))) = 2

Statuses == {"strong", "needs_revision", "weak"}

\* the four copies give one status to each score and confidence
StatusesAgree ==
  \A score \in 0..100, confidence \in Confidences :
    /\ quizPageStatus(score, confidence) = classify(score, confidence)
    /\ dashboardStatus(score, confidence) = classify(score, confidence)
    /\ revisionStatus(score, confidence) = classify(score, confidence)

\* the four copies schedule one set of offsets for each status
OffsetsAgree ==
  \A status \in Statuses :
    LET edge == { revisionSchedule(status)[i].daysAhead :
                    i \in DOMAIN revisionSchedule(status) }
    IN /\ Range(quizPageRevisionDays(status)) = edge
       /\ Range(dashboardRevisionDays(status)) = edge
       /\ Range(revisionRevisionDays(status)) = edge

WithoutRequireQuiz(rows) ==
  [ i \in DOMAIN rows |-> [rows[i] EXCEPT !.require_quiz = FALSE] ]

\* the rows each copy builds, against those of the Quiz page for the same
\* completion: the edge function drops the dates that have a revision task,
\* the Dashboard and the Revision page leave require_quiz unset
RevisionRowsAgree ==
  LET page == quizPageRevisionTasks(inv[1].userId, inv[1].topicId, now,
                                    inv[1].status)
  IN inv'[1].pc # inv[1].pc =>
     /\ inv[1].pc = "selectRevisions" =>
          inv'[1].newRevisionTasks =
            SelectSeq(page, LAMBDA r :
              RevisionCount(r.user_id, r.topic_id, r.scheduled_date) = 0)
     /\ inv[1].pc = "dashInsertRevisions" =>
          inv'[1].newRevisionTasks = WithoutRequireQuiz(page)
     /\ inv[1].pc = "revInsertRevisions" =>
          log'[Len(log')].newRevisionTasks = WithoutRequireQuiz(page)
     /\ inv[1].pc \in {"insertRevisions", "pageInsertRevisions",
                       "dashInsertRevisions", "revInsertRevisions"} =>
          \/ study_tasks' = study_tasks
          \/ study_tasks' = study_tasks (+)
               BagOfSeq(IF inv[1].pc = "revInsertRevisions"
                        THEN log'[Len(log')].newRevisionTasks
                        ELSE IF inv[1].pc = "insertRevisions"
                             THEN inv[1].newRevisionTasks
                             ELSE inv'[1].newRevisionTasks)

\* the study tasks of the completion's topic on the day the copy took
StudyTasksOfTheDay ==
  SumCopies(StudyTasksFor(inv[1].userId, inv[1].topicId,
                          IF inv[1].pc = "insertStudyTask" THEN inv[1].today
                          ELSE toISODate(now)))

\* a completed study task of the completion is inserted in this step
InsertsStudyTask ==
  \E r \in BagToSet(study_tasks') :
    /\ r.task_type = "study"
    /\ study_tasks' = study_tasks (+) SetToBag({r})

\* the saved completion of this step writes the streak by the rule
WritesStreak ==
  LET e == log'[Len(log')]
  IN /\ profiles'[e.userId].last_study_date = toISODate(e.todayDate)
     /\ profiles'[e.userId].current_streak =
          StreakRule(profiles[e.userId].last_study_date,
                     profiles[e.userId].current_streak, e.todayDate)

\* C28 as stated: the copies give the same status and the same offsets and
\* differ only in the edge function's filter and in require_quiz: each of
\* them writes the streak when it saves a completion, none changes a row of
\* study_tasks, and a study task is inserted only when the day does not
\* have exactly one for the topic.
C28_CopiesDifferOnlyInRevisionRows ==
  [][ /\ StatusesAgree /\ OffsetsAgree /\ RevisionRowsAgree
      /\ Responds(200) => WritesStreak
      /\ study_tasks \sqsubseteq study_tasks'
      /\ InsertsStudyTask => StudyTasksOfTheDay # 1 ]_vars

\* C28 amended: the copies give the same status and the same offsets; in
\* the revision rows they differ only in the edge function's filter and in
\* require_quiz; beyond that, the Revision page does not write the streak,
\* the Dashboard and the Revision page complete the task the quiz was
\* started from and insert no study task, and the Quiz page inserts a study
\* task whatever the table holds.
C28_CopiesAndTheirDifferences ==
  [][ /\ StatusesAgree /\ OffsetsAgree /\ RevisionRowsAgree
      /\ Responds(200) =>
           IF log'[Len(log')].origin = "revision"
           THEN profiles' = profiles
           ELSE WritesStreak
      /\ inv[1].origin = "revision" => profiles' = profiles
      /\ ~(study_tasks \sqsubseteq study_tasks') =>
           /\ inv[1].pc \in {"dashMarkTask", "revMarkTask"}
           /\ study_tasks' = UpdateRow(inv[1].task[1],
                                [inv[1].task[1] EXCEPT !.is_completed = TRUE])
      /\ InsertsStudyTask =>
           \/ inv[1].pc = "pageInsertStudyTask"
           \/ inv[1].pc = "insertStudyTask" /\ StudyTasksOfTheDay # 1 ]_vars

\* a revision task completed through the Dashboard with a weak result, and
\* the same topic completed through the edge function afterwards
C28_Witness ==
  /\ Len(log) = 2
  /\ log[1].origin = "dashboard" /\ log[1].status = "weak"
  /\ log[1].inserted = 1 /\ ~log[1].newRevisionTasks[1].require_quiz
  /\ BagIn([log[1].task[1] EXCEPT !.is_completed = TRUE], study_tasks)
  /\ log[2].origin = "edge" /\ log[2].http = 200
  /\ log[2].status = "weak" /\ log[2].newRevisionTasks = << >>

====
